---- MODULE Spec2Model ----
(***************************************************************************)
(* ArrayDeque: a double-ended queue on a growable circular buffer.         *)
(*                                                                         *)
(* The model keeps JavaScript's object semantics where they matter: a      *)
(* deque object holds a REFERENCE to its backing array, the arrays live in *)
(* a heap, and `new Array(n)` allocates a fresh array.  Two deque objects  *)
(* are modelled (the deque under test and the result of clone()), so that  *)
(* sharing of a backing array between them would be visible.               *)
(*                                                                         *)
(* Values are integers.  The JavaScript value `undefined` (an empty array  *)
(* slot, and the result of a pop/peek/at that finds nothing) is encoded as *)
(* the integer -1; the callers of this model push the values 0, 1, 2, ...  *)
(*                                                                         *)
(* PriorityQueue: a binary heap in a dense array, ordered by a comparator. *)
(* Its state is the array itself (`this.heap`, the variable pq here) and   *)
(* the comparator chosen at construction.                                  *)
(***************************************************************************)
EXTENDS Integers, Sequences, FiniteSets, TLC

VARIABLES
    heap,       \* backing arrays: array id -> sequence of slots (slot i is element i+1)
    deque,      \* the ArrayDeque object under test (Null before construction)
    copy,       \* the object returned by deque.clone() (Null when there is none)
    err,        \* message of the error thrown by the last call, NoError when it returned
    log,        \* history: the calls made so far, with argument, result and size before
    obs,        \* history: the last query made since the last mutating call (NoObs: none)
    model,      \* history: the plain list that received the same calls as deque
    copyModel,  \* history: the plain list that received the same calls as copy
    iter,       \* the generator object of the iteration in progress (NoIter: none)
    passes,     \* history: the values yielded by each iteration since the last mutating call
    stage,      \* position of the driver that issues the calls
    ops,        \* number of budgeted calls issued
    rot,        \* number of warm-up rotations (pushBack; popFront on the empty deque)
    pq,         \* the PriorityQueue under test: its array this.heap
    compare,    \* the comparator of pq (a name, see Compare)
    other,      \* a second PriorityQueue, the argument of the last call (merge): its array
    pqObs,      \* history: the last call on pq, with the array before it
    drained,    \* history: the results of the pops of the drain in progress
    options     \* the options object pq was constructed with, when the caller has
                \* kept it: its fields, its array initialValues as it is now, and,
                \* as history, the array as it was given (NoOptions: not kept)

vars == <<heap, deque, copy, err, log, obs, model, copyModel, iter, passes,
          stage, ops, rot, pq, compare, other, pqObs, drained, options>>

\* The variables of the priority queue (the deque's calls leave them alone)
pqVars == <<pq, compare, other, pqObs, drained, options>>

\* The variables of the deque (the priority queue's calls leave them alone)
dequeVars == <<heap, deque, copy, log, obs, model, copyModel, iter, passes, rot>>

----------------------------------------------------------------------------
(* Program constants *)

Undefined == -1

DefaultCapacity == 16

MinCapacity == 16

ClearCapacity == 16

NoError == "none"

CapacityError == "Initial capacity must be at least 1"

\* The capacity the growth test asks for: new ArrayDeque(2)
GrowRequested == 2

(* Bounds of the model *)

MaxRotate == 2

MaxOps == 3

MaxRun == 34

MaxGrowPushes == 100

MaxSlides == 1

MaxBelow == 2

MaxAbove == 1

MaxLen == 9

MaxValue == 2

MaxSize == 6

MaxInit == 3

MaxOther == 2
MaxBuild == 5

----------------------------------------------------------------------------
(* JavaScript primitives *)

Max(a, b) == IF a >= b THEN a ELSE b

\* The % operator: the sign of the result is the sign of the dividend.
JsMod(a, n) == IF a >= 0 THEN a % n ELSE 0 - ((0 - a) % n)

\* new Array(n): n empty slots, each reading as undefined.
NewArray(n) == [i \in 1..n |-> Undefined]

\* arr[i]: reading outside the elements gives undefined.
Get(arr, i) == IF i >= 0 /\ i < Len(arr) THEN arr[i + 1] ELSE Undefined

\* arr[i] = v: writing at or past the length extends the array with empty
\* slots.  (A negative index would name a property, not an element; the
\* code never computes one, and the model leaves the elements alone.)
Set(arr, i, v) ==
    IF i >= 0 /\ i < Len(arr) THEN [arr EXCEPT ![i + 1] = v]
    ELSE IF i >= Len(arr)
         THEN [j \in 1..(i + 1) |->
                  IF j <= Len(arr) THEN arr[j] ELSE IF j = i + 1 THEN v ELSE Undefined]
         ELSE arr

\* Allocation of an array: a fresh id (the least one not in use).
Alloc(h, arr) ==
    LET id == CHOOSE i \in 1..(Cardinality(DOMAIN h) + 1) :
                  /\ i \notin DOMAIN h
                  /\ \A j \in 1..(Cardinality(DOMAIN h) + 1) : j \notin DOMAIN h => i <= j
    IN  [heap |-> (id :> arr) @@ h, id |-> id]

\* Garbage collection: arrays no object refers to are gone.
Collect(h, objs) ==
    [i \in ({o.buffer : o \in objs} \cap DOMAIN h) |-> h[i]]

EmptyHeap == [i \in {} |-> <<>>]

Null == [buffer |-> 0, head |-> 0, tail |-> 0, capacity |-> 0, count |-> 0]

----------------------------------------------------------------------------
(* class ArrayDeque.  Every method is an operator from the heap h and the   *)
(* receiver d to the heap and receiver after the call, its result `ret`    *)
(* and the error it threw `err`.                                           *)

Result(h, d, r) == [heap |-> h, obj |-> d, ret |-> r, err |-> NoError]

\* Mutant of Constructor: a requested capacity of 0 is let through.
ConstructorAcceptsZero(h, args) ==
    LET initialCapacity == IF args = <<>> THEN DefaultCapacity ELSE args[1]
    IN  IF initialCapacity < 0
        THEN [heap |-> h, obj |-> Null, ret |-> Undefined, err |-> CapacityError]
        ELSE LET capacity == Max(initialCapacity, MinCapacity)
                 a == Alloc(h, NewArray(capacity))
             IN  Result(a.heap,
                        [buffer |-> a.id, head |-> 0, tail |-> 0,
                         capacity |-> capacity, count |-> 0],
                        Undefined)

\* Mutant of Constructor: the requested capacity is used as it is.
ConstructorNoMinimum(h, args) ==
    LET initialCapacity == IF args = <<>> THEN DefaultCapacity ELSE args[1]
    IN  IF initialCapacity < 1
        THEN [heap |-> h, obj |-> Null, ret |-> Undefined, err |-> CapacityError]
        ELSE LET capacity == initialCapacity
                 a == Alloc(h, NewArray(capacity))
             IN  Result(a.heap,
                        [buffer |-> a.id, head |-> 0, tail |-> 0,
                         capacity |-> capacity, count |-> 0],
                        Undefined)

\* new ArrayDeque(...args): args is <<>> or <<initialCapacity>>.  When the
\* constructor throws there is no object (obj is Null).
Constructor(h, args) ==
    LET initialCapacity == IF args = <<>> THEN DefaultCapacity ELSE args[1]
    IN  IF initialCapacity < 1
        THEN [heap |-> h, obj |-> Null, ret |-> Undefined, err |-> CapacityError]
        ELSE LET capacity == Max(initialCapacity, MinCapacity)
                 a == Alloc(h, NewArray(capacity))
             IN  Result(a.heap,
                        [buffer |-> a.id, head |-> 0, tail |-> 0,
                         capacity |-> capacity, count |-> 0],
                        Undefined)

\* Mutant of DequeConstructor: tail is left at slot 0.
DequeConstructorTailZero(h, isArray, x) ==
    IF isArray
    THEN LET capacity == Max(16, Len(x) * 2)
             a == Alloc(h, [i \in 1..capacity |-> IF i <= Len(x) THEN x[i] ELSE Undefined])
         IN  Result(a.heap,
                    [buffer |-> a.id, head |-> 0, tail |-> 0,
                     capacity |-> capacity, count |-> Len(x)],
                    Undefined)
    ELSE Constructor(h, x)

\* new Deque(x), the constructor of the compiled class: x is an array of
\* elements (isArray), or the argument list of the constructor above.
DequeConstructor(h, isArray, x) ==
    IF isArray
    THEN LET capacity == Max(16, Len(x) * 2)
             a == Alloc(h, [i \in 1..capacity |-> IF i <= Len(x) THEN x[i] ELSE Undefined])
         IN  Result(a.heap,
                    [buffer |-> a.id, head |-> 0, tail |-> Len(x),
                     capacity |-> capacity, count |-> Len(x)],
                    Undefined)
    ELSE Constructor(h, x)

Size(d) == d.count

IsEmpty(d) == d.count = 0

\* Mutant of Clear: the indices are reset but the capacity is kept.
ClearKeepCapacity(h, d) ==
    LET a == Alloc(h, NewArray(d.capacity))
    IN  Result(a.heap,
               [buffer |-> a.id, head |-> 0, tail |-> 0,
                capacity |-> d.capacity, count |-> 0],
               Undefined)

Clear(h, d) ==
    LET a == Alloc(h, NewArray(ClearCapacity))
    IN  Result(a.heap,
               [buffer |-> a.id, head |-> 0, tail |-> 0,
                capacity |-> ClearCapacity, count |-> 0],
               Undefined)

\* Mutant of Grow: tail is left where it was.
GrowKeepTail(h, d) ==
    LET newCapacity == d.capacity * 2
        newBuffer == [i \in 1..newCapacity |->
                         IF i - 1 < d.count
                         THEN Get(h[d.buffer], JsMod(d.head + (i - 1), d.capacity))
                         ELSE Undefined]
        a == Alloc(h, newBuffer)
    IN  Result(a.heap,
               [buffer |-> a.id, head |-> 0, tail |-> d.tail,
                capacity |-> newCapacity, count |-> d.count],
               Undefined)

\* Mutant of Grow: the elements are copied slot by slot, not from the head.
GrowNoUnwrap(h, d) ==
    LET newCapacity == d.capacity * 2
        newBuffer == [i \in 1..newCapacity |->
                         IF i - 1 < d.count THEN Get(h[d.buffer], i - 1) ELSE Undefined]
        a == Alloc(h, newBuffer)
    IN  Result(a.heap,
               [buffer |-> a.id, head |-> 0, tail |-> d.count,
                capacity |-> newCapacity, count |-> d.count],
               Undefined)

Grow(h, d) ==
    LET newCapacity == d.capacity * 2
        newBuffer == [i \in 1..newCapacity |->
                         IF i - 1 < d.count
                         THEN Get(h[d.buffer], JsMod(d.head + (i - 1), d.capacity))
                         ELSE Undefined]
        a == Alloc(h, newBuffer)
    IN  Result(a.heap,
               [buffer |-> a.id, head |-> 0, tail |-> d.count,
                capacity |-> newCapacity, count |-> d.count],
               Undefined)

\* Mutant of PushFront: the value is stored before head is moved.
PushFrontStoreFirst(h, d, value) ==
    LET g == IF d.count = d.capacity THEN Grow(h, d) ELSE Result(h, d, Undefined)
        e == g.obj
        head == JsMod(e.head - 1 + e.capacity, e.capacity)
    IN  Result([g.heap EXCEPT ![e.buffer] = Set(@, e.head, value)],
               [e EXCEPT !.head = head, !.count = @ + 1],
               Undefined)

\* Mutant of PushFront: head is moved back without wrapping around.
PushFrontNoWrap(h, d, value) ==
    LET g == IF d.count = d.capacity THEN Grow(h, d) ELSE Result(h, d, Undefined)
        e == g.obj
        head == e.head - 1
    IN  Result([g.heap EXCEPT ![e.buffer] = Set(@, head, value)],
               [e EXCEPT !.head = head, !.count = @ + 1],
               Undefined)

PushFront(h, d, value) ==
    LET g == IF d.count = d.capacity THEN Grow(h, d) ELSE Result(h, d, Undefined)
        e == g.obj
        head == JsMod(e.head - 1 + e.capacity, e.capacity)
    IN  Result([g.heap EXCEPT ![e.buffer] = Set(@, head, value)],
               [e EXCEPT !.head = head, !.count = @ + 1],
               Undefined)

\* Mutant of PushBack: tail is advanced without wrapping around.
PushBackNoWrap(h, d, value) ==
    LET g == IF d.count = d.capacity THEN Grow(h, d) ELSE Result(h, d, Undefined)
        e == g.obj
    IN  Result([g.heap EXCEPT ![e.buffer] = Set(@, e.tail, value)],
               [e EXCEPT !.tail = e.tail + 1, !.count = @ + 1],
               Undefined)

\* Mutant of PushBack: the buffer grows one push early.
PushBackGrowEarly(h, d, value) ==
    LET g == IF d.count + 1 = d.capacity THEN Grow(h, d) ELSE Result(h, d, Undefined)
        e == g.obj
    IN  Result([g.heap EXCEPT ![e.buffer] = Set(@, e.tail, value)],
               [e EXCEPT !.tail = JsMod(e.tail + 1, e.capacity), !.count = @ + 1],
               Undefined)

PushBack(h, d, value) ==
    LET g == IF d.count = d.capacity THEN Grow(h, d) ELSE Result(h, d, Undefined)
        e == g.obj
    IN  Result([g.heap EXCEPT ![e.buffer] = Set(@, e.tail, value)],
               [e EXCEPT !.tail = JsMod(e.tail + 1, e.capacity), !.count = @ + 1],
               Undefined)

\* Mutant of PopFront: the slot is read after it was overwritten.
PopFrontReadAfterClear(h, d) ==
    IF d.count = 0 THEN Result(h, d, Undefined)
    ELSE Result([h EXCEPT ![d.buffer] = Set(@, d.head, Undefined)],
                [d EXCEPT !.head = JsMod(d.head + 1, d.capacity), !.count = @ - 1],
                Get(Set(h[d.buffer], d.head, Undefined), d.head))

\* Mutant of PopFront: head stays where it is.
PopFrontHeadStays(h, d) ==
    IF d.count = 0 THEN Result(h, d, Undefined)
    ELSE Result([h EXCEPT ![d.buffer] = Set(@, d.head, Undefined)],
                [d EXCEPT !.count = @ - 1],
                Get(h[d.buffer], d.head))

PopFront(h, d) ==
    IF d.count = 0 THEN Result(h, d, Undefined)
    ELSE Result([h EXCEPT ![d.buffer] = Set(@, d.head, Undefined)],
                [d EXCEPT !.head = JsMod(d.head + 1, d.capacity), !.count = @ - 1],
                Get(h[d.buffer], d.head))

\* Mutant of PopBack: count is not decremented.
PopBackKeepCount(h, d) ==
    IF d.count = 0 THEN Result(h, d, Undefined)
    ELSE LET tail == JsMod(d.tail - 1 + d.capacity, d.capacity)
         IN  Result([h EXCEPT ![d.buffer] = Set(@, tail, Undefined)],
                    [d EXCEPT !.tail = tail],
                    Get(h[d.buffer], tail))

\* Mutant of PopBack: no check for the empty deque.
PopBackUnguarded(h, d) ==
    LET tail == JsMod(d.tail - 1 + d.capacity, d.capacity)
    IN  Result([h EXCEPT ![d.buffer] = Set(@, tail, Undefined)],
               [d EXCEPT !.tail = tail, !.count = @ - 1],
               Get(h[d.buffer], tail))

\* Mutant of PopBack: the vacated slot keeps its value.
PopBackKeepSlot(h, d) ==
    IF d.count = 0 THEN Result(h, d, Undefined)
    ELSE LET tail == JsMod(d.tail - 1 + d.capacity, d.capacity)
         IN  Result(h,
                    [d EXCEPT !.tail = tail, !.count = @ - 1],
                    Get(h[d.buffer], tail))

PopBack(h, d) ==
    IF d.count = 0 THEN Result(h, d, Undefined)
    ELSE LET tail == JsMod(d.tail - 1 + d.capacity, d.capacity)
         IN  Result([h EXCEPT ![d.buffer] = Set(@, tail, Undefined)],
                    [d EXCEPT !.tail = tail, !.count = @ - 1],
                    Get(h[d.buffer], tail))

PeekFront(h, d) ==
    IF d.count = 0 THEN Result(h, d, Undefined)
    ELSE Result(h, d, Get(h[d.buffer], d.head))

\* Mutant of PeekBack: tail is moved to the slot that is read.
PeekBackMovesTail(h, d) ==
    IF d.count = 0 THEN Result(h, d, Undefined)
    ELSE LET backIndex == JsMod(d.tail - 1 + d.capacity, d.capacity)
         IN  Result(h, [d EXCEPT !.tail = backIndex], Get(h[d.buffer], backIndex))

PeekBack(h, d) ==
    IF d.count = 0 THEN Result(h, d, Undefined)
    ELSE Result(h, d, Get(h[d.buffer], JsMod(d.tail - 1 + d.capacity, d.capacity)))

\* Mutant of At: the upper bound check is off by one.
AtOffByOne(h, d, index) ==
    IF index < 0 \/ index > d.count THEN Result(h, d, Undefined)
    ELSE Result(h, d, Get(h[d.buffer], JsMod(d.head + index, d.capacity)))

At(h, d, index) ==
    IF index < 0 \/ index >= d.count THEN Result(h, d, Undefined)
    ELSE Result(h, d, Get(h[d.buffer], JsMod(d.head + index, d.capacity)))

\* toArray(): the result is a new array, given here by value.
ToArray(h, d) ==
    [i \in 1..d.count |-> Get(h[d.buffer], JsMod(d.head + (i - 1), d.capacity))]

\* deque[Symbol.iterator](): a new generator object, its loop variable i
\* not yet advanced (the body of a generator function runs on next()).
Iterator(t) == [target |-> t, i |-> 0, done |-> FALSE]

\* Mutant of IteratorNext: the buffer is read in slot order.
IteratorNextRaw(h, d, g) ==
    IF g.done THEN [gen |-> g, value |-> Undefined, done |-> TRUE]
    ELSE IF g.i < d.count
    THEN [gen |-> [g EXCEPT !.i = @ + 1],
          value |-> Get(h[d.buffer], g.i),
          done |-> FALSE]
    ELSE [gen |-> [g EXCEPT !.done = TRUE], value |-> Undefined, done |-> TRUE]

\* g.next(): one step of the generator g over the deque d.  The loop test
\* reads this.count at every step.
IteratorNext(h, d, g) ==
    IF g.done THEN [gen |-> g, value |-> Undefined, done |-> TRUE]
    ELSE IF g.i < d.count
    THEN [gen |-> [g EXCEPT !.i = @ + 1],
          value |-> Get(h[d.buffer], JsMod(d.head + g.i, d.capacity)),
          done |-> FALSE]
    ELSE [gen |-> [g EXCEPT !.done = TRUE], value |-> Undefined, done |-> TRUE]

\* The values a generator just obtained from d yields until it is done
\* (for ... of, or [...deque])
RECURSIVE Spread(_, _, _)
Spread(h, d, g) ==
    LET n == IteratorNext(h, d, g)
    IN  IF n.done THEN <<>> ELSE <<n.value>> \o Spread(h, d, n.gen)

\* String(v) as Array.prototype.join gives it: the empty string for
\* undefined, the decimal digits for a number
Str(v) == IF v = Undefined THEN "" ELSE ToString(v)

\* items.join(separator), as the sequence of the pieces of the string
RECURSIVE Join(_, _)
Join(items, separator) ==
    IF items = <<>> THEN <<>>
    ELSE IF Len(items) = 1 THEN <<Str(items[1])>>
    ELSE <<Str(items[1]), separator>> \o Join(Tail(items), separator)

\* toString(): the pieces of the template string
DequeToString(h, d) == <<"Deque[">> \o Join(ToArray(h, d), ", ") \o <<"]">>

\* Mutant of Clone: the new object keeps the capacity the constructor gave
\* it for the minimum.
CloneMinCapacity(h, d) ==
    LET n == Constructor(h, <<MinCapacity>>)
        a == Alloc(n.heap, h[d.buffer])
    IN  IF n.err # NoError THEN n
        ELSE Result(a.heap,
                    [buffer |-> a.id, head |-> d.head, tail |-> d.tail,
                     capacity |-> n.obj.capacity, count |-> d.count],
                    Undefined)

\* Mutant of Clone: the new object is given the receiver's array itself.
CloneShared(h, d) ==
    LET n == Constructor(h, <<d.capacity>>)
    IN  IF n.err # NoError THEN n
        ELSE Result(n.heap,
                    [buffer |-> d.buffer, head |-> d.head, tail |-> d.tail,
                     capacity |-> d.capacity, count |-> d.count],
                    Undefined)

Clone(h, d) ==
    LET n == Constructor(h, <<d.capacity>>)
        a == Alloc(n.heap, h[d.buffer])
    IN  IF n.err # NoError THEN n
        ELSE Result(a.heap,
                    [buffer |-> a.id, head |-> d.head, tail |-> d.tail,
                     capacity |-> d.capacity, count |-> d.count],
                    Undefined)

----------------------------------------------------------------------------
(* The aliases.  push, enqueue and unshift call the canonical method and   *)
(* return nothing; the others return what the canonical method returns.    *)

Push(h, d, value) == [PushBack(h, d, value) EXCEPT !.ret = Undefined]

\* Mutant of Pop: it removes at the front.
PopViaFront(h, d) == PopFront(h, d)

Pop(h, d) == PopBack(h, d)

Peek(h, d) == PeekBack(h, d)

Top(h, d) == PeekBack(h, d)

Enqueue(h, d, value) == [PushBack(h, d, value) EXCEPT !.ret = Undefined]

Dequeue(h, d) == PopFront(h, d)

Front(h, d) == PeekFront(h, d)

Back(h, d) == PeekBack(h, d)

Unshift(h, d, value) == [PushFront(h, d, value) EXCEPT !.ret = Undefined]

Shift(h, d) == PopFront(h, d)

----------------------------------------------------------------------------
(* The plain list that the deque is compared with *)

PushOps == {"pushFront", "pushBack"}

PopOps == {"popFront", "popBack"}

ListAfter(name, l, arg) ==
    CASE name = "pushFront" -> <<arg>> \o l
      [] name = "pushBack"  -> Append(l, arg)
      [] name = "popFront"  -> IF l = <<>> THEN l ELSE Tail(l)
      [] name = "popBack"   -> IF l = <<>> THEN l ELSE SubSeq(l, 1, Len(l) - 1)
      [] name = "clear"     -> <<>>
      [] OTHER              -> l

ListRemoved(name, l) ==
    CASE name = "popFront" /\ l # <<>> -> Head(l)
      [] name = "popBack" /\ l # <<>>  -> l[Len(l)]
      [] OTHER                         -> Undefined

----------------------------------------------------------------------------
(* Calls.  Call(name, t, arg, r): the method `name` was called on object t  *)
(* with argument arg, and r is what the method's operator gives.           *)

Obj(t) == IF t = "deque" THEN deque ELSE copy

ListOf(t) == IF t = "deque" THEN model ELSE copyModel

NoObs == [op |-> "none", target |-> "none", arg |-> Undefined, ret |-> Undefined]

NoIter == [target |-> "none", i |-> 0, done |-> TRUE]

\* The value the caller pushes next: 0, 1, 2, ... in the order of the pushes.
NextValue == Cardinality({i \in DOMAIN log : log[i].op \in PushOps})

\* CallAs: the call was made through the method `method` (an alias of
\* `name`, or `name` itself).  A mutating call ends the driver's use of a
\* generator it had obtained before.
CallAs(method, name, t, arg, r) ==
    /\ deque' = IF t = "deque" THEN r.obj ELSE deque
    /\ copy' = IF t = "copy" THEN r.obj ELSE copy
    /\ heap' = Collect(r.heap, {deque', copy'})
    /\ err' = r.err
    /\ log' = Append(log, [op |-> name, method |-> method, target |-> t,
                           arg |-> arg, ret |-> r.ret,
                           before |-> Obj(t).count,
                           removed |-> ListRemoved(name, ListOf(t))])
    /\ obs' = NoObs
    /\ model' = IF t = "deque" THEN ListAfter(name, model, arg) ELSE model
    /\ copyModel' = IF t = "copy" THEN ListAfter(name, copyModel, arg) ELSE copyModel
    /\ iter' = NoIter
    /\ passes' = <<>>
    /\ UNCHANGED pqVars

Call(name, t, arg, r) == CallAs(name, name, t, arg, r)

\* new ArrayDeque(...args): the object under test is the new object.
CallNew(args) ==
    LET r == Constructor(EmptyHeap, args)
    IN  /\ deque' = r.obj
        /\ copy' = Null
        /\ heap' = Collect(r.heap, {deque'})
        /\ err' = r.err
        /\ log' = Append(log, [op |-> IF args = <<>> THEN "newDefault" ELSE "new",
                               method |-> "constructor",
                               target |-> "deque",
                               arg |-> IF args = <<>> THEN Undefined ELSE args[1],
                               ret |-> r.ret, before |-> 0, removed |-> Undefined])
        /\ obs' = NoObs
        /\ model' = <<>>
        /\ copyModel' = <<>>
        /\ iter' = NoIter
        /\ passes' = <<>>
        /\ UNCHANGED pqVars

\* new Deque(elements): the object under test is the new object.
CallNewFrom(elements) ==
    LET r == DequeConstructor(EmptyHeap, TRUE, elements)
    IN  /\ deque' = r.obj
        /\ copy' = Null
        /\ heap' = Collect(r.heap, {deque'})
        /\ err' = r.err
        /\ log' = Append(log, [op |-> "newFrom", method |-> "constructor",
                               target |-> "deque", arg |-> Len(elements),
                               ret |-> r.ret, before |-> 0, removed |-> Undefined])
        /\ obs' = NoObs
        /\ model' = elements
        /\ copyModel' = <<>>
        /\ iter' = NoIter
        /\ passes' = <<>>
        /\ UNCHANGED pqVars

\* copy = deque.clone()
CallClone ==
    LET r == Clone(heap, deque)
    IN  /\ deque' = deque
        /\ copy' = r.obj
        /\ heap' = Collect(r.heap, {deque', copy'})
        /\ err' = r.err
        /\ log' = Append(log, [op |-> "clone", method |-> "clone", target |-> "deque",
                               arg |-> Undefined,
                               ret |-> Undefined, before |-> deque.count,
                               removed |-> Undefined])
        /\ obs' = NoObs
        /\ model' = model
        /\ copyModel' = model
        /\ iter' = NoIter
        /\ passes' = <<>>
        /\ UNCHANGED pqVars

\* A query: its result is observed; the history of calls is left alone.
Query(name, t, arg, r) ==
    /\ deque' = IF t = "deque" THEN r.obj ELSE deque
    /\ copy' = IF t = "copy" THEN r.obj ELSE copy
    /\ heap' = Collect(r.heap, {deque', copy'})
    /\ err' = r.err
    /\ obs' = [op |-> name, target |-> t, arg |-> arg, ret |-> r.ret]
    /\ UNCHANGED <<log, model, copyModel, iter, passes>>
    /\ UNCHANGED pqVars

PushFrontOn(t) == Call("pushFront", t, NextValue, PushFront(heap, Obj(t), NextValue))

PushBackOn(t) == Call("pushBack", t, NextValue, PushBack(heap, Obj(t), NextValue))

PopFrontOn(t) == Call("popFront", t, Undefined, PopFront(heap, Obj(t)))

PopBackOn(t) == Call("popBack", t, Undefined, PopBack(heap, Obj(t)))

ClearOn(t) == Call("clear", t, Undefined, Clear(heap, Obj(t)))

LastOp == IF log = <<>> THEN "none" ELSE log[Len(log)].op

----------------------------------------------------------------------------
(* class PriorityQueue.  A method is an operator from the comparator c and *)
(* the array a (this.heap) to the array after the call and the result.    *)
(* The names of the methods that the deque has too are prefixed with PQ.   *)

\* The example comparator (a, b) => a.priority - b.priority: the values of
\* this model are numbers, and the priority of a number is its half, so
\* that different values can have the same priority.
Priority(v) == v \div 2

\* this.compare(a, b), for the comparator the constructor has set.  The
\* caller's comparator is any function to the numbers; besides the example
\* one ("custom") the model has three that are no order at all:
\*   "cyclic"  every value outranks the next one and the last outranks the
\*             first (not transitive);
\*   "always"  every value outranks every value, itself included (not
\*             antisymmetric, and compare(a, a) is not 0);
\*   "never"   no value outranks any, and compare(a, a) is not 0.
Compare(c, a, b) ==
    CASE c = "min"    -> a - b
      [] c = "max"    -> b - a
      [] c = "custom" -> Priority(a) - Priority(b)
      [] c = "cyclic" -> IF a = b THEN 0
                         ELSE IF (b - a) % (MaxValue + 1) = 1 THEN -1 ELSE 1
      [] c = "always" -> -1
      [] c = "never"  -> 1

GetParentIndex(index) == (index - 1) \div 2

GetLeftChildIndex(index) == 2 * index + 1

GetRightChildIndex(index) == 2 * index + 2

\* Mutant of Swap: the second element is read after the first was written.
SwapCopies(a, i, j) ==
    LET first == Set(a, i, Get(a, j))
    IN  Set(first, j, Get(first, i))

Swap(a, i, j) == Set(Set(a, i, Get(a, j)), j, Get(a, i))

\* a.pop() of a non-empty array: the array without its last element
ArrayPop(a) == SubSeq(a, 1, Len(a) - 1)

\* a.indexOf(value): the first index holding the value, -1 when none does
IndexOf(a, value) ==
    IF \E i \in DOMAIN a : a[i] = value
    THEN (CHOOSE i \in DOMAIN a : a[i] = value /\ \A j \in 1..(i - 1) : a[j] # value) - 1
    ELSE -1

PQResult(a, r) == [heap |-> a, ret |-> r]

\* Mutant of BubbleUp: the child is copied over its parent, not swapped.
RECURSIVE BubbleUpOverwrite(_, _, _)
BubbleUpOverwrite(c, a, index) ==
    IF index > 0
    THEN LET parentIdx == GetParentIndex(index)
         IN  IF Compare(c, Get(a, index), Get(a, parentIdx)) < 0
             THEN BubbleUpOverwrite(c, Set(a, parentIdx, Get(a, index)), parentIdx)
             ELSE a
    ELSE a

RECURSIVE BubbleUp(_, _, _)
BubbleUp(c, a, index) ==
    IF index > 0
    THEN LET parentIdx == GetParentIndex(index)
         IN  IF Compare(c, Get(a, index), Get(a, parentIdx)) < 0
             THEN BubbleUp(c, Swap(a, index, parentIdx), parentIdx)
             ELSE a
    ELSE a

\* The indices that `index` takes in bubbleUp(index), the first included
RECURSIVE BubbleUpPath(_, _, _)
BubbleUpPath(c, a, index) ==
    IF index > 0
    THEN LET parentIdx == GetParentIndex(index)
         IN  IF Compare(c, Get(a, index), Get(a, parentIdx)) < 0
             THEN <<index>> \o BubbleUpPath(c, Swap(a, index, parentIdx), parentIdx)
             ELSE <<index>>
    ELSE <<index>>

\* Mutant of BubbleDown: the right child is not looked at.
RECURSIVE BubbleDownLeftOnly(_, _, _)
BubbleDownLeftOnly(c, a, index) ==
    LET length == Len(a)
        leftIdx == GetLeftChildIndex(index)
        targetIdx == IF leftIdx < length /\ Compare(c, Get(a, leftIdx), Get(a, index)) < 0
                     THEN leftIdx ELSE index
    IN  IF targetIdx = index THEN a
        ELSE BubbleDownLeftOnly(c, Swap(a, index, targetIdx), targetIdx)

\* Mutant of BubbleDown: a right child that ties with the better of the
\* node and its left child is taken.
RECURSIVE BubbleDownRightOnTie(_, _, _)
BubbleDownRightOnTie(c, a, index) ==
    LET length == Len(a)
        leftIdx == GetLeftChildIndex(index)
        rightIdx == GetRightChildIndex(index)
        viaLeft == IF leftIdx < length /\ Compare(c, Get(a, leftIdx), Get(a, index)) < 0
                   THEN leftIdx ELSE index
        targetIdx == IF rightIdx < length /\ Compare(c, Get(a, rightIdx), Get(a, viaLeft)) <= 0
                     THEN rightIdx ELSE viaLeft
    IN  IF targetIdx = index THEN a
        ELSE BubbleDownRightOnTie(c, Swap(a, index, targetIdx), targetIdx)

RECURSIVE BubbleDown(_, _, _)
BubbleDown(c, a, index) ==
    LET length == Len(a)
        leftIdx == GetLeftChildIndex(index)
        rightIdx == GetRightChildIndex(index)
        viaLeft == IF leftIdx < length /\ Compare(c, Get(a, leftIdx), Get(a, index)) < 0
                   THEN leftIdx ELSE index
        targetIdx == IF rightIdx < length /\ Compare(c, Get(a, rightIdx), Get(a, viaLeft)) < 0
                     THEN rightIdx ELSE viaLeft
    IN  IF targetIdx = index THEN a
        ELSE BubbleDown(c, Swap(a, index, targetIdx), targetIdx)

\* The indices that `index` takes in bubbleDown(index), the first included
RECURSIVE BubbleDownPath(_, _, _)
BubbleDownPath(c, a, index) ==
    LET length == Len(a)
        leftIdx == GetLeftChildIndex(index)
        rightIdx == GetRightChildIndex(index)
        viaLeft == IF leftIdx < length /\ Compare(c, Get(a, leftIdx), Get(a, index)) < 0
                   THEN leftIdx ELSE index
        targetIdx == IF rightIdx < length /\ Compare(c, Get(a, rightIdx), Get(a, viaLeft)) < 0
                     THEN rightIdx ELSE viaLeft
    IN  IF targetIdx = index THEN <<index>>
        ELSE <<index>> \o BubbleDownPath(c, Swap(a, index, targetIdx), targetIdx)

\* The loop of heapify from index i down to 0
RECURSIVE HeapifyFrom(_, _, _)
HeapifyFrom(c, a, i) ==
    IF i >= 0 THEN HeapifyFrom(c, BubbleDown(c, a, i), i - 1) ELSE a

Heapify(c, a) == PQResult(HeapifyFrom(c, a, (Len(a) \div 2) - 1), Undefined)

\* Mutant of PQConstructor: the heap type is looked at before the comparator.
PQConstructorTypeFirst(o) ==
    LET type == IF o.type = "absent" THEN "min" ELSE o.type
        c == IF type # "min" THEN "max"
             ELSE IF o.comparator # "none" THEN o.comparator ELSE "min"
    IN  [compare |-> c,
         heap |-> IF Len(o.initialValues) > 0
                  THEN Heapify(c, o.initialValues).heap
                  ELSE <<>>,
         initialValues |-> o.initialValues,
         shared |-> FALSE]

\* Mutant of PQConstructor: this.heap = initialValues, without the copy.
PQConstructorNoCopy(o) ==
    LET type == IF o.type = "absent" THEN "min" ELSE o.type
        c == IF o.comparator # "none" THEN o.comparator
             ELSE IF type = "min" THEN "min" ELSE "max"
        h == IF Len(o.initialValues) > 0
             THEN Heapify(c, o.initialValues).heap
             ELSE <<>>
    IN  [compare |-> c, heap |-> h,
         initialValues |-> IF Len(o.initialValues) > 0 THEN h ELSE o.initialValues,
         shared |-> Len(o.initialValues) > 0]

\* new PriorityQueue(o): o.comparator is "none" or the name of a comparator,
\* o.type is "absent", "min" or "max", o.initialValues an array (the empty
\* array also stands for none given).  The result has the comparator and
\* the array of the new queue, the caller's array initialValues as the
\* constructor leaves it, and whether the queue's array is that array
\* object (shared) or another one: [...initialValues] is another one.
PQConstructor(o) ==
    LET type == IF o.type = "absent" THEN "min" ELSE o.type
        c == IF o.comparator # "none" THEN o.comparator
             ELSE IF type = "min" THEN "min" ELSE "max"
    IN  [compare |-> c,
         heap |-> IF Len(o.initialValues) > 0
                  THEN Heapify(c, o.initialValues).heap
                  ELSE <<>>,
         initialValues |-> o.initialValues,
         shared |-> FALSE]

PQSize(a) == Len(a)

PQIsEmpty(a) == Len(a) = 0

PQPush(c, a, value) ==
    LET pushed == Append(a, value)
    IN  PQResult(BubbleUp(c, pushed, Len(pushed) - 1), Len(pushed))

\* Mutant of PQPop: the last element is put at the root and left there.
PQPopNoSift(c, a) ==
    IF PQIsEmpty(a) THEN PQResult(a, Undefined)
    ELSE IF Len(a) = 1 THEN PQResult(ArrayPop(a), a[Len(a)])
    ELSE PQResult(Set(ArrayPop(a), 0, a[Len(a)]), Get(a, 0))

\* Mutant of PQPop: no check for the empty queue nor for the single element.
PQPopUnguarded(c, a) ==
    PQResult(BubbleDown(c, Set(ArrayPop(a), 0, Get(a, Len(a) - 1)), 0), Get(a, 0))

PQPop(c, a) ==
    IF PQIsEmpty(a) THEN PQResult(a, Undefined)
    ELSE IF Len(a) = 1 THEN PQResult(ArrayPop(a), a[Len(a)])
    ELSE PQResult(BubbleDown(c, Set(ArrayPop(a), 0, a[Len(a)]), 0), Get(a, 0))

PQPeek(a) == PQResult(a, Get(a, 0))

PQClear(a) == PQResult(<<>>, Undefined)

PQToArray(a) == PQResult(a, a)

\* The loop of toSortedArray: pop() into sorted until the array is empty
RECURSIVE DrainLoop(_, _, _)
DrainLoop(c, a, sorted) ==
    IF Len(a) > 0
    THEN DrainLoop(c, PQPop(c, a).heap, Append(sorted, PQPop(c, a).ret))
    ELSE [heap |-> a, sorted |-> sorted]

\* Mutant of PQToSortedArray: the array is left as the loop left it.
PQToSortedArrayNoRestore(c, a) ==
    LET looped == DrainLoop(c, a, <<>>)
    IN  PQResult(looped.heap, looped.sorted)

\* toSortedArray(): the array is copied, drained by pop() and replaced by
\* the copy.
PQToSortedArray(c, a) ==
    LET tempHeap == a
        looped == DrainLoop(c, a, <<>>)
    IN  PQResult(tempHeap, looped.sorted)

\* Mutant of PQRemove: the moved value is always sifted down.
PQRemoveDownOnly(c, a, value) ==
    LET index == IndexOf(a, value)
    IN  IF index = -1 THEN PQResult(a, FALSE)
        ELSE IF index = Len(a) - 1 THEN PQResult(ArrayPop(a), TRUE)
        ELSE PQResult(BubbleDown(c, Set(ArrayPop(a), index, a[Len(a)]), index), TRUE)

\* Mutant of PQRemove: a match in the last slot is treated as any other,
\* so that the value popped is written back.
PQRemoveNoTruncate(c, a, value) ==
    LET index == IndexOf(a, value)
    IN  IF index = -1 THEN PQResult(a, FALSE)
        ELSE LET moved == Set(ArrayPop(a), index, a[Len(a)])
                 parentIdx == GetParentIndex(index)
             IN  IF parentIdx >= 0 /\ Compare(c, Get(moved, index), Get(moved, parentIdx)) < 0
                 THEN PQResult(BubbleUp(c, moved, index), TRUE)
                 ELSE PQResult(BubbleDown(c, moved, index), TRUE)

\* Mutant of PQRemove: a moved value that ties with its parent is sifted up.
PQRemoveUpOnTie(c, a, value) ==
    LET index == IndexOf(a, value)
    IN  IF index = -1 THEN PQResult(a, FALSE)
        ELSE IF index = Len(a) - 1 THEN PQResult(ArrayPop(a), TRUE)
        ELSE LET moved == Set(ArrayPop(a), index, a[Len(a)])
                 parentIdx == GetParentIndex(index)
             IN  IF parentIdx >= 0 /\ Compare(c, Get(moved, index), Get(moved, parentIdx)) <= 0
                 THEN PQResult(BubbleUp(c, moved, index), TRUE)
                 ELSE PQResult(BubbleDown(c, moved, index), TRUE)

PQRemove(c, a, value) ==
    LET index == IndexOf(a, value)
    IN  IF index = -1 THEN PQResult(a, FALSE)
        ELSE IF index = Len(a) - 1 THEN PQResult(ArrayPop(a), TRUE)
        ELSE LET moved == Set(ArrayPop(a), index, a[Len(a)])
                 parentIdx == GetParentIndex(index)
             IN  IF parentIdx >= 0 /\ Compare(c, Get(moved, index), Get(moved, parentIdx)) < 0
                 THEN PQResult(BubbleUp(c, moved, index), TRUE)
                 ELSE PQResult(BubbleDown(c, moved, index), TRUE)

\* Mutant of PQReplace: the new root is not sifted down.
PQReplaceNoSift(c, a, value) ==
    IF PQIsEmpty(a) THEN PQResult(PQPush(c, a, value).heap, Undefined)
    ELSE PQResult(Set(a, 0, value), Get(a, 0))

PQReplace(c, a, value) ==
    IF PQIsEmpty(a) THEN PQResult(PQPush(c, a, value).heap, Undefined)
    ELSE PQResult(BubbleDown(c, Set(a, 0, value), 0), Get(a, 0))

\* Mutant of PQPushPop: a value that ties with the root is returned too.
PQPushPopTieReturns(c, a, value) ==
    IF PQIsEmpty(a) \/ Compare(c, value, Get(a, 0)) <= 0 THEN PQResult(a, value)
    ELSE PQReplace(c, a, value)

\* Mutant of PQPushPop: the comparison is the wrong way round.
PQPushPopReversed(c, a, value) ==
    IF PQIsEmpty(a) \/ Compare(c, value, Get(a, 0)) > 0 THEN PQResult(a, value)
    ELSE PQReplace(c, a, value)

PQPushPop(c, a, value) ==
    IF PQIsEmpty(a) \/ Compare(c, value, Get(a, 0)) < 0 THEN PQResult(a, value)
    ELSE PQReplace(c, a, value)

\* [Symbol.iterator]() of a queue: the generator, before its first next()
PQIterator(t) == [target |-> t, i |-> 0, done |-> FALSE]

\* g.next() of the generator g over a queue whose array is now a: the array
\* iterator behind it reads the length of the array at every step.
PQIteratorNext(a, g) ==
    IF g.done THEN [gen |-> g, value |-> Undefined, done |-> TRUE]
    ELSE IF g.i < Len(a)
    THEN [gen |-> [g EXCEPT !.i = @ + 1], value |-> a[g.i + 1], done |-> FALSE]
    ELSE [gen |-> [g EXCEPT !.done = TRUE], value |-> Undefined, done |-> TRUE]

\* [...queue]: the values the generator g gives over the array a until it
\* is done
RECURSIVE PQSpread(_, _)
PQSpread(a, g) ==
    LET n == PQIteratorNext(a, g)
    IN  IF n.done THEN <<>> ELSE <<n.value>> \o PQSpread(a, n.gen)

PQContains(a, value) == PQResult(a, \E i \in DOMAIN a : a[i] = value)

\* Mutant of MergeTurn: the value is taken out of the other queue's array.
MergeTurnTaking(c, a, b, same, g) ==
    LET n == PQIteratorNext(b, g)
    IN  IF n.done
        THEN [heap |-> Heapify(c, a).heap, other |-> b, gen |-> n.gen, done |-> TRUE]
        ELSE [heap |-> Append(a, n.value), other |-> Tail(b), gen |-> g, done |-> FALSE]

\* One turn of the loop of merge(other), `for (const value of other)
\* this.heap.push(value)`, and on leaving the loop this.heapify().  a is
\* the receiver's array, b the array of other, g the generator obtained
\* from other; same tells that other is the receiver itself, whose array
\* is then the one array the push appends to.
MergeTurn(c, a, b, same, g) ==
    LET n == PQIteratorNext(b, g)
        pushed == Append(a, n.value)
    IN  IF n.done
        THEN LET h == Heapify(c, a).heap
             IN  [heap |-> h, other |-> IF same THEN h ELSE b, gen |-> n.gen, done |-> TRUE]
        ELSE [heap |-> pushed, other |-> IF same THEN pushed ELSE b,
              gen |-> n.gen, done |-> FALSE]

\* merge(other), for another queue whose array is b
PQMerge(c, a, b) == Heapify(c, a \o b)

\* No call on the priority queue yet
NoPQObs == [op |-> "none", arg |-> Undefined, ret |-> Undefined, before |-> <<>>]

\* No pop since the queue was last set up: start is the array then
\* shared: the array of the queue is the array object initialValues
NoOptions == [comparator |-> "none", type |-> "absent", initialValues |-> <<>>,
              given |-> <<>>, shared |-> FALSE]

NoDrain == [start |-> <<>>, rets |-> <<>>, sorted |-> <<>>]

----------------------------------------------------------------------------
(* The drivers: which call may come next.  A driver is the test program    *)
(* around the deque; it only chooses calls, their effect is the code's.    *)

Init ==
    /\ heap = EmptyHeap
    /\ deque = Null
    /\ copy = Null
    /\ err = NoError
    /\ log = <<>>
    /\ obs = NoObs
    /\ model = <<>>
    /\ copyModel = <<>>
    /\ iter = NoIter
    /\ passes = <<>>
    /\ stage = "new"
    /\ ops = 0
    /\ rot = 0
    /\ pq = <<>>
    /\ compare = "min"
    /\ other = <<>>
    /\ pqObs = NoPQObs
    /\ drained = NoDrain
    /\ options = NoOptions

Live == stage \in {"rotate", "fill", "free"}

\* A budgeted call: one of at most MaxOps calls of any kind in any order.
Budgeted ==
    /\ Live
    /\ ops < MaxOps
    /\ stage' = "free"
    /\ rot' = rot
    /\ ops' = ops + 1

\* The warm-up: the driver first turns the ring (up to MaxRotate times
\* pushBack; popFront on the empty deque) and fills it (pushBack while there
\* is room); these calls are not budgeted.
Unbudgeted(name) ==
    \/ name = "pushBack" /\ stage \in {"rotate", "fill"} /\ deque.count < deque.capacity
    \/ name = "popFront" /\ stage = "rotate" /\ deque.count = 1 /\ rot < MaxRotate

Driver(name) ==
    IF Unbudgeted(name)
    THEN /\ stage' = IF name = "popFront" \/ deque.count = 0 THEN "rotate" ELSE "fill"
         /\ rot' = IF name = "popFront" THEN rot + 1 ELSE rot
         /\ ops' = ops
    ELSE Budgeted

\* The constructor call that starts every run; `next` is the driver's stage
\* when the constructor returns (when it throws, the run is over).
NewWith(args, next) ==
    /\ stage = "new"
    /\ CallNew(args)
    /\ stage' = IF err' = NoError THEN next ELSE "failed"
    /\ UNCHANGED <<ops, rot>>

NewDefault == NewWith(<<>>, "rotate")

----------------------------------------------------------------------------
(* Specification Spec: one deque built with the default capacity; warm-up, *)
(* then up to MaxOps calls of pushFront, pushBack, popFront, popBack and   *)
(* clear in any order; peekFront, peekBack and at are observed anywhere.   *)

DoPushFront == Driver("pushFront") /\ PushFrontOn("deque")

DoPushBack == Driver("pushBack") /\ PushBackOn("deque")

DoPopFront == Driver("popFront") /\ PopFrontOn("deque")

DoPopBack == Driver("popBack") /\ PopBackOn("deque")

DoClear == Driver("clear") /\ ClearOn("deque")

\* The indices at() is observed with: just outside and just inside the range.
AtIndices(d) == {-1, 0, d.count - 1, d.count}

DoPeekFront ==
    /\ Live
    /\ Query("peekFront", "deque", Undefined, PeekFront(heap, deque))
    /\ UNCHANGED <<stage, ops, rot>>

DoPeekBack ==
    /\ Live
    /\ Query("peekBack", "deque", Undefined, PeekBack(heap, deque))
    /\ UNCHANGED <<stage, ops, rot>>

DoAt ==
    /\ Live
    /\ \E index \in AtIndices(deque) : Query("at", "deque", index, At(heap, deque, index))
    /\ UNCHANGED <<stage, ops, rot>>

Next ==
    \/ NewDefault
    \/ DoPushFront
    \/ DoPushBack
    \/ DoPopFront
    \/ DoPopBack
    \/ DoClear
    \/ DoPeekFront
    \/ DoPeekBack
    \/ DoAt

Spec == Init /\ [][Next]_vars

----------------------------------------------------------------------------
(* Specification SpecRun: one run of pushes at one end followed by pops at *)
(* one end.  After the warm-up rotations the deque is empty; the driver    *)
(* pushes up to MaxRun values with one of the push methods, then pops with *)
(* one of the pop methods until the deque is empty, and once more.         *)

\* The stage after the call `name`, "no" when the driver does not make it.
RunNext(name) ==
    IF stage = "rotate"
    THEN IF name = "pushBack" THEN (IF deque.count = 0 THEN "rotate" ELSE "push")
         ELSE IF name = "pushFront" THEN (IF deque.count = 0 THEN "push" ELSE "no")
         ELSE IF name = "popFront" /\ deque.count = 1 /\ rot < MaxRotate
              THEN "rotate" ELSE "pop"
    ELSE IF stage = "push"
    THEN IF name \in PushOps
         THEN (IF name = LastOp /\ deque.count < MaxRun THEN "push" ELSE "no")
         ELSE "pop"
    ELSE IF stage = "pop"
    THEN (IF name = LastOp /\ log[Len(log)].before > 0 THEN "pop" ELSE "no")
    ELSE "no"

RunDriver(name) ==
    /\ RunNext(name) # "no"
    /\ stage' = RunNext(name)
    /\ rot' = IF stage = "rotate" /\ name = "popFront" /\ RunNext(name) = "rotate"
              THEN rot + 1 ELSE rot
    /\ ops' = ops

RunPushFront == RunDriver("pushFront") /\ PushFrontOn("deque")

RunPushBack == RunDriver("pushBack") /\ PushBackOn("deque")

RunPopFront == RunDriver("popFront") /\ PopFrontOn("deque")

RunPopBack == RunDriver("popBack") /\ PopBackOn("deque")

NextRun ==
    \/ NewDefault
    \/ RunPushFront
    \/ RunPushBack
    \/ RunPopFront
    \/ RunPopBack

SpecRun == Init /\ [][NextRun]_vars

----------------------------------------------------------------------------
(* Specification SpecGrow: the growth test.  new ArrayDeque(2), warm-up    *)
(* rotations, then up to MaxGrowPushes calls of pushBack in all, with up   *)
(* to MaxSlides calls of popFront anywhere in between (the rotations and   *)
(* these move head off slot 0 before a growth).                            *)

NewSmall == NewWith(<<GrowRequested>>, "rotate")

GrowPushBack ==
    /\ stage \in {"rotate", "grow"}
    /\ NextValue < MaxGrowPushes
    /\ PushBackOn("deque")
    /\ stage' = IF stage = "rotate" /\ deque.count = 0 THEN "rotate" ELSE "grow"
    /\ UNCHANGED <<ops, rot>>

GrowRotate ==
    /\ stage = "rotate"
    /\ deque.count = 1
    /\ rot < MaxRotate
    /\ PopFrontOn("deque")
    /\ rot' = rot + 1
    /\ UNCHANGED <<stage, ops>>

GrowPopFront ==
    /\ stage = "grow"
    /\ ops < MaxSlides
    /\ deque.count > 0
    /\ PopFrontOn("deque")
    /\ ops' = ops + 1
    /\ UNCHANGED <<stage, rot>>

NextGrow ==
    \/ NewSmall
    \/ GrowPushBack
    \/ GrowRotate
    \/ GrowPopFront

SpecGrow == Init /\ [][NextGrow]_vars

----------------------------------------------------------------------------
(* Specification SpecClone: as Spec without the queries, and one of the    *)
(* budgeted calls may be clone(); after it the budgeted calls go to the    *)
(* original or to the clone.                                               *)

DoClone ==
    /\ Budgeted
    /\ copy = Null
    /\ CallClone

CopyPushFront == Budgeted /\ copy # Null /\ PushFrontOn("copy")

CopyPushBack == Budgeted /\ copy # Null /\ PushBackOn("copy")

CopyPopFront == Budgeted /\ copy # Null /\ PopFrontOn("copy")

CopyPopBack == Budgeted /\ copy # Null /\ PopBackOn("copy")

CopyClear == Budgeted /\ copy # Null /\ ClearOn("copy")

NextClone ==
    \/ NewDefault
    \/ DoPushFront
    \/ DoPushBack
    \/ DoPopFront
    \/ DoPopBack
    \/ DoClear
    \/ DoClone
    \/ CopyPushFront
    \/ CopyPushBack
    \/ CopyPopFront
    \/ CopyPopBack
    \/ CopyClear

SpecClone == Init /\ [][NextClone]_vars

----------------------------------------------------------------------------
(* Specification SpecNew: the constructor with and without an argument,    *)
(* then up to MaxOps calls of any method (no warm-up).                     *)

\* The capacities requested: around 0 and 1, and around the minimum.
RequestedCaps ==
    ((0 - MaxBelow)..GrowRequested) \cup ((MinCapacity - 1)..(MinCapacity + MaxAbove))

NewRequested == \E c \in RequestedCaps : NewWith(<<c>>, "free")

NewPlain == NewWith(<<>>, "free")

NextNew ==
    \/ NewRequested
    \/ NewPlain
    \/ DoPushFront
    \/ DoPushBack
    \/ DoPopFront
    \/ DoPopBack
    \/ DoClear
    \/ DoClone
    \/ CopyPushFront
    \/ CopyPushBack
    \/ CopyPopFront
    \/ CopyPopBack
    \/ CopyClear
    \/ DoPeekFront
    \/ DoPeekBack
    \/ DoAt

SpecNew == Init /\ [][NextNew]_vars

----------------------------------------------------------------------------
(* Specification SpecClear: as Spec without the queries, on a deque built  *)
(* with no argument or with a requested capacity at or above the minimum.  *)

\* The constructor arguments: none, or a capacity from MinCapacity on.
ClearArgs == {<<>>} \cup {<<c>> : c \in {r \in RequestedCaps : r >= MinCapacity}}

NewForClear == \E args \in ClearArgs : NewWith(args, "rotate")

NextClear ==
    \/ NewForClear
    \/ DoPushFront
    \/ DoPushBack
    \/ DoPopFront
    \/ DoPopBack
    \/ DoClear

SpecClear == Init /\ [][NextClear]_vars

----------------------------------------------------------------------------
(* Specification SpecIter: as Spec without the queries; a budgeted call    *)
(* may start an iteration of the deque (for ... of), whose steps follow    *)
(* with no other call in between unless the driver gives the iteration up. *)

DoIterate ==
    /\ Budgeted
    /\ iter.done
    /\ iter' = Iterator("deque")
    /\ passes' = Append(passes, <<>>)
    /\ UNCHANGED <<heap, deque, copy, err, log, obs, model, copyModel>>
    /\ UNCHANGED pqVars

DoIterNext ==
    /\ Live
    /\ ~iter.done
    /\ LET r == IteratorNext(heap, Obj(iter.target), iter)
       IN  /\ iter' = r.gen
           /\ passes' = [passes EXCEPT ![Len(passes)] =
                             IF r.done THEN @ ELSE Append(@, r.value)]
    /\ UNCHANGED <<heap, deque, copy, err, log, obs, model, copyModel, stage, ops, rot>>
    /\ UNCHANGED pqVars

NextIter ==
    \/ NewDefault
    \/ DoPushFront
    \/ DoPushBack
    \/ DoPopFront
    \/ DoPopBack
    \/ DoClear
    \/ DoIterate
    \/ DoIterNext

SpecIter == Init /\ [][NextIter]_vars

----------------------------------------------------------------------------
(* Specification SpecAlias: as Spec, every call made through an alias.     *)
(* The warm-up uses push and dequeue.                                      *)

AliasPush ==
    /\ Driver("pushBack")
    /\ CallAs("push", "pushBack", "deque", NextValue, Push(heap, deque, NextValue))

AliasEnqueue ==
    /\ Budgeted
    /\ CallAs("enqueue", "pushBack", "deque", NextValue, Enqueue(heap, deque, NextValue))

AliasUnshift ==
    /\ Budgeted
    /\ CallAs("unshift", "pushFront", "deque", NextValue, Unshift(heap, deque, NextValue))

AliasPop ==
    /\ Budgeted
    /\ CallAs("pop", "popBack", "deque", Undefined, Pop(heap, deque))

AliasDequeue ==
    /\ Driver("popFront")
    /\ CallAs("dequeue", "popFront", "deque", Undefined, Dequeue(heap, deque))

AliasShift ==
    /\ Budgeted
    /\ CallAs("shift", "popFront", "deque", Undefined, Shift(heap, deque))

AliasPeek ==
    /\ Live
    /\ Query("peek", "deque", Undefined, Peek(heap, deque))
    /\ UNCHANGED <<stage, ops, rot>>

AliasTop ==
    /\ Live
    /\ Query("top", "deque", Undefined, Top(heap, deque))
    /\ UNCHANGED <<stage, ops, rot>>

AliasFront ==
    /\ Live
    /\ Query("front", "deque", Undefined, Front(heap, deque))
    /\ UNCHANGED <<stage, ops, rot>>

AliasBack ==
    /\ Live
    /\ Query("back", "deque", Undefined, Back(heap, deque))
    /\ UNCHANGED <<stage, ops, rot>>

NextAlias ==
    \/ NewDefault
    \/ AliasPush
    \/ AliasEnqueue
    \/ AliasUnshift
    \/ AliasPop
    \/ AliasDequeue
    \/ AliasShift
    \/ AliasPeek
    \/ AliasTop
    \/ AliasFront
    \/ AliasBack

SpecAlias == Init /\ [][NextAlias]_vars

----------------------------------------------------------------------------
(* Specification SpecStore: the caller also stores the value undefined     *)
(* (an ArrayDeque<number | undefined>).  Warm-up with pushBack and         *)
(* popFront, then up to MaxOps calls: pushes of the next number or of      *)
(* undefined, and pops; peekFront, peekBack and at are observed anywhere.  *)

\* The values a push is called with: the next number, or undefined.
StoredValues == {NextValue, Undefined}

StorePushFront ==
    /\ Budgeted
    /\ \E value \in StoredValues :
           Call("pushFront", "deque", value, PushFront(heap, deque, value))

StorePushBack ==
    /\ \E value \in StoredValues :
           /\ IF value = NextValue THEN Driver("pushBack") ELSE Budgeted
           /\ Call("pushBack", "deque", value, PushBack(heap, deque, value))

NextStore ==
    \/ NewDefault
    \/ StorePushFront
    \/ StorePushBack
    \/ DoPopFront
    \/ DoPopBack
    \/ DoPeekFront
    \/ DoPeekBack
    \/ DoAt

SpecStore == Init /\ [][NextStore]_vars

----------------------------------------------------------------------------
(* Specification SpecFrom: a Deque built from an array of up to MaxLen     *)
(* elements, filled up with pushBack, then up to MaxOps calls.             *)

\* The array given to the constructor: len values, none of them a value
\* that is pushed later.
Elements(len) == [i \in 1..len |-> 0 - (i + 1)]

NewFrom ==
    /\ stage = "new"
    /\ \E len \in 0..MaxLen : CallNewFrom(Elements(len))
    /\ stage' = "fill"
    /\ UNCHANGED <<ops, rot>>

NextFrom ==
    \/ NewFrom
    \/ DoPushFront
    \/ DoPushBack
    \/ DoPopFront
    \/ DoPopBack
    \/ DoClear

SpecFrom == Init /\ [][NextFrom]_vars

----------------------------------------------------------------------------
(* Specification SpecPQ: a priority queue built with any of the options,   *)
(* then any calls of push, pop, peek, remove, replace, pushPop, merge,     *)
(* heapify and clear, on a queue of up to MaxSize values.                  *)

PQValues == 0..MaxValue

\* The arrays of up to n values
Arrays(n) == UNION {[1..k -> PQValues] : k \in 0..n}

\* A call of the method `name` on pq; r is what the method's operator gives.
\* The pops of a non-empty queue that follow one another are a drain.
PQCall(name, arg, r) ==
    /\ stage = "pq"
    /\ pq' = r.heap
    /\ pqObs' = [op |-> name, arg |-> arg, ret |-> r.ret, before |-> pq]
    /\ drained' = IF name = "pop"
                  THEN (IF pq = <<>> THEN drained
                        ELSE [drained EXCEPT !.rets = Append(@, r.ret)])
                  ELSE IF name = "peek" THEN drained
                  ELSE [start |-> r.heap, rets |-> <<>>,
                        sorted |-> IF name = "toSortedArray" THEN r.ret ELSE <<>>]
    /\ options' = IF options.shared THEN [options EXCEPT !.initialValues = r.heap]
                  ELSE options
    /\ err' = NoError
    /\ UNCHANGED <<compare, stage, ops>>
    /\ UNCHANGED dequeVars

\* new PriorityQueue(options), the caller keeping no hold of the options
PQNew ==
    /\ stage = "new"
    /\ \E comparator \in {"none", "custom"}, type \in {"absent", "min", "max"},
          initialValues \in Arrays(MaxInit) :
           LET n == PQConstructor([comparator |-> comparator, type |-> type,
                                   initialValues |-> initialValues])
           IN  /\ pq' = n.heap
               /\ compare' = n.compare
               /\ pqObs' = [op |-> "new", arg |-> Undefined, ret |-> Undefined,
                            before |-> initialValues]
               /\ drained' = [start |-> n.heap, rets |-> <<>>, sorted |-> <<>>]
    /\ stage' = "pq"
    /\ err' = NoError
    /\ UNCHANGED <<other, ops, options>>
    /\ UNCHANGED dequeVars

PQDoPush ==
    /\ Len(pq) < MaxSize
    /\ \E value \in PQValues : PQCall("push", value, PQPush(compare, pq, value))
    /\ other' = <<>>

PQDoPop == PQCall("pop", Undefined, PQPop(compare, pq)) /\ other' = <<>>

PQDoPeek == PQCall("peek", Undefined, PQPeek(pq)) /\ other' = <<>>

PQDoRemove ==
    /\ \E value \in PQValues : PQCall("remove", value, PQRemove(compare, pq, value))
    /\ other' = <<>>

PQDoReplace ==
    /\ Len(pq) > 0 \/ Len(pq) < MaxSize
    /\ \E value \in PQValues : PQCall("replace", value, PQReplace(compare, pq, value))
    /\ other' = <<>>

PQDoPushPop ==
    /\ \E value \in PQValues : PQCall("pushPop", value, PQPushPop(compare, pq, value))
    /\ other' = <<>>

\* The arrays the other queue of a merge is built from: up to MaxOther
\* values that follow one another, starting anywhere.
MergeArgs ==
    {[i \in 1..k |-> (v + i - 1) % (MaxValue + 1)] : k \in 0..MaxOther, v \in PQValues}

\* pq.merge(new PriorityQueue({type: "max", initialValues})); the other
\* queue is let go of at the next call.
PQDoMerge ==
    \E initialValues \in MergeArgs :
        LET o == PQConstructor([comparator |-> "none", type |-> "max",
                                initialValues |-> initialValues])
        IN  /\ Len(pq) + Len(o.heap) <= MaxSize
            /\ PQCall("merge", Undefined, PQMerge(compare, pq, o.heap))
            /\ other' = o.heap

PQDoHeapify == PQCall("heapify", Undefined, Heapify(compare, pq)) /\ other' = <<>>

PQDoClear == PQCall("clear", Undefined, PQClear(pq)) /\ other' = <<>>

PQDoToSortedArray ==
    /\ PQCall("toSortedArray", Undefined, PQToSortedArray(compare, pq))
    /\ other' = <<>>

NextPQ ==
    \/ PQNew
    \/ PQDoPush
    \/ PQDoPop
    \/ PQDoPeek
    \/ PQDoRemove
    \/ PQDoReplace
    \/ PQDoPushPop
    \/ PQDoMerge
    \/ PQDoHeapify
    \/ PQDoClear

SpecPQ == Init /\ [][NextPQ]_vars

----------------------------------------------------------------------------
(* Specification SpecQuery: as Spec, with clone() among the calls, and     *)
(* after each call at most one query of the deque: peekFront, peekBack,    *)
(* at, toArray, toString, size, isEmpty or a whole iteration.              *)

\* The driver makes a query when it has observed nothing since the last call
Quiet == Live /\ obs.op = NoObs.op

QueryPeekFront ==
    /\ Quiet
    /\ Query("peekFront", "deque", Undefined, PeekFront(heap, deque))
    /\ UNCHANGED <<stage, ops, rot>>

QueryPeekBack ==
    /\ Quiet
    /\ Query("peekBack", "deque", Undefined, PeekBack(heap, deque))
    /\ UNCHANGED <<stage, ops, rot>>

QueryAt ==
    /\ Quiet
    /\ \E index \in AtIndices(deque) : Query("at", "deque", index, At(heap, deque, index))
    /\ UNCHANGED <<stage, ops, rot>>

QueryToArray ==
    /\ Quiet
    /\ Query("toArray", "deque", Undefined, Result(heap, deque, ToArray(heap, deque)))
    /\ UNCHANGED <<stage, ops, rot>>

QueryToString ==
    /\ Quiet
    /\ Query("toString", "deque", Undefined,
             Result(heap, deque, DequeToString(heap, deque)))
    /\ UNCHANGED <<stage, ops, rot>>

QuerySize ==
    /\ Quiet
    /\ Query("size", "deque", Undefined, Result(heap, deque, Size(deque)))
    /\ UNCHANGED <<stage, ops, rot>>

QueryIsEmpty ==
    /\ Quiet
    /\ Query("isEmpty", "deque", Undefined, Result(heap, deque, IsEmpty(deque)))
    /\ UNCHANGED <<stage, ops, rot>>

QuerySpread ==
    /\ Quiet
    /\ Query("iterate", "deque", Undefined,
             Result(heap, deque, Spread(heap, deque, Iterator("deque"))))
    /\ UNCHANGED <<stage, ops, rot>>

NextQuery ==
    \/ NewDefault
    \/ DoPushFront
    \/ DoPushBack
    \/ DoPopFront
    \/ DoPopBack
    \/ DoClear
    \/ DoClone
    \/ QueryPeekFront
    \/ QueryPeekBack
    \/ QueryAt
    \/ QueryToArray
    \/ QueryToString
    \/ QuerySize
    \/ QueryIsEmpty
    \/ QuerySpread

SpecQuery == Init /\ [][NextQuery]_vars

----------------------------------------------------------------------------
(* Specification SpecMerge: merge(other), one turn of its loop at a time.  *)
(* The argument is either a queue built for the call, with its own heap    *)
(* type, or the receiver itself.  pqObs.arg is the array of the argument   *)
(* at the call; iter is the generator the loop draws from, its target      *)
(* "other" for a second queue and "pq" for the receiver.                   *)

\* The longest array the driver lets a merge make before it gives up on it.
MergeCap == 2 * MaxSize + 2

\* pq.merge(new PriorityQueue({type, initialValues})): the call and the
\* start of the loop
MergeOther ==
    /\ stage = "pq"
    /\ \E type \in {"min", "max"}, initialValues \in MergeArgs :
           LET o == PQConstructor([comparator |-> "none", type |-> type,
                                   initialValues |-> initialValues])
           IN  /\ Len(pq) + Len(o.heap) <= MaxSize
               /\ other' = o.heap
               /\ pqObs' = [op |-> "merge", arg |-> o.heap, ret |-> Undefined,
                            before |-> pq]
    /\ iter' = PQIterator("other")
    /\ stage' = "merge"
    /\ err' = NoError
    /\ UNCHANGED <<pq, compare, drained, ops, options>>
    /\ UNCHANGED <<heap, deque, copy, log, obs, model, copyModel, passes, rot>>

\* pq.merge(pq)
MergeSelf ==
    /\ stage = "pq"
    /\ other' = pq
    /\ pqObs' = [op |-> "merge", arg |-> pq, ret |-> Undefined, before |-> pq]
    /\ iter' = PQIterator("pq")
    /\ stage' = "merge"
    /\ err' = NoError
    /\ UNCHANGED <<pq, compare, drained, ops, options>>
    /\ UNCHANGED <<heap, deque, copy, log, obs, model, copyModel, passes, rot>>

\* One turn of the loop; the turn that finds the generator done leaves the
\* loop, heapifies and returns.
MergeStep ==
    /\ stage = "merge"
    /\ Len(pq) < MergeCap
    /\ LET t == MergeTurn(compare, pq, other, iter.target = "pq", iter)
       IN  /\ pq' = t.heap
           /\ other' = t.other
           /\ iter' = t.gen
           /\ stage' = IF t.done THEN "pq" ELSE "merge"
           /\ drained' = IF t.done THEN [start |-> t.heap, rets |-> <<>>, sorted |-> <<>>]
                       ELSE drained
    /\ UNCHANGED <<compare, pqObs, err, ops, options>>
    /\ UNCHANGED <<heap, deque, copy, log, obs, model, copyModel, passes, rot>>

NextMerge ==
    \/ PQNew
    \/ MergeOther
    \/ MergeSelf
    \/ MergeStep

SpecMerge == Init /\ [][NextMerge]_vars

----------------------------------------------------------------------------
(* Specification SpecAny: a queue whose comparator is no order.  The queue *)
(* is built from an array with one of the comparators "cyclic", "always"   *)
(* and "never", and every operation that compares is then called in any    *)
(* order, on queues of up to MaxInit + 2 values.                           *)

AnyComparators == {"cyclic", "always", "never"}

AnyNew ==
    /\ stage = "new"
    /\ \E comparator \in AnyComparators, type \in {"absent", "max"},
          initialValues \in Arrays(MaxInit) :
           LET n == PQConstructor([comparator |-> comparator, type |-> type,
                                   initialValues |-> initialValues])
           IN  /\ pq' = n.heap
               /\ compare' = n.compare
               /\ pqObs' = [op |-> "new", arg |-> Undefined, ret |-> Undefined,
                            before |-> initialValues]
               /\ drained' = [start |-> n.heap, rets |-> <<>>, sorted |-> <<>>]
    /\ stage' = "pq"
    /\ err' = NoError
    /\ UNCHANGED <<other, ops, options>>
    /\ UNCHANGED dequeVars

AnyPush ==
    /\ Len(pq) <= MaxInit + 1
    /\ \E value \in PQValues : PQCall("push", value, PQPush(compare, pq, value))
    /\ other' = <<>>

NextAny ==
    \/ AnyNew
    \/ AnyPush
    \/ PQDoPop
    \/ PQDoRemove
    \/ PQDoReplace
    \/ PQDoPushPop
    \/ PQDoHeapify
    \/ PQDoToSortedArray

SpecAny == Init /\ [][NextAny]_vars

----------------------------------------------------------------------------
(* Specification SpecSorted: toSortedArray() among pushes, pops and peeks. *)
(* drained.sorted is the result of the last toSortedArray() for as long as *)
(* only pops and peeks have followed it.                                   *)

NextSorted ==
    \/ PQNew
    \/ PQDoPush
    \/ PQDoPop
    \/ PQDoPeek
    \/ PQDoToSortedArray

SpecSorted == Init /\ [][NextSorted]_vars

----------------------------------------------------------------------------
(* Specification SpecContent: a queue under the calls that may add or     *)
(* take values, push, pop, remove and clear, and under those that may     *)
(* not: heapify, peek, contains, toArray, toSortedArray and an iteration. *)

PQDoContains ==
    /\ \E value \in PQValues : PQCall("contains", value, PQContains(pq, value))
    /\ other' = <<>>

PQDoToArray == PQCall("toArray", Undefined, PQToArray(pq)) /\ other' = <<>>

\* [...queue]
PQDoIterate ==
    /\ PQCall("iterate", Undefined, PQResult(pq, PQSpread(pq, PQIterator("self"))))
    /\ other' = <<>>

NextContent ==
    \/ PQNew
    \/ PQDoPush
    \/ PQDoPop
    \/ PQDoPeek
    \/ PQDoRemove
    \/ PQDoHeapify
    \/ PQDoClear
    \/ PQDoToSortedArray
    \/ PQDoContains
    \/ PQDoToArray
    \/ PQDoIterate

SpecContent == Init /\ [][NextContent]_vars

----------------------------------------------------------------------------
(* Specification SpecOrder: which order a queue built with given options   *)
(* pops in.  The caller keeps the options; the queue starts empty, is      *)
(* pushed the values 5, 1 and 3 in any order and number, and is popped.    *)

OrderValues == {5, 1, 3}

OrderNew ==
    /\ stage = "new"
    /\ \E comparator \in {"none", "custom"}, type \in {"absent", "min", "max"} :
           LET o == [comparator |-> comparator, type |-> type, initialValues |-> <<>>]
               n == PQConstructor(o)
           IN  /\ pq' = n.heap
               /\ compare' = n.compare
               /\ options' = [comparator |-> comparator, type |-> type,
                              initialValues |-> n.initialValues,
                              given |-> o.initialValues, shared |-> n.shared]
               /\ pqObs' = [op |-> "new", arg |-> Undefined, ret |-> Undefined,
                            before |-> o.initialValues]
               /\ drained' = [start |-> n.heap, rets |-> <<>>, sorted |-> <<>>]
    /\ stage' = "pq"
    /\ err' = NoError
    /\ UNCHANGED <<other, ops>>
    /\ UNCHANGED dequeVars

OrderPush ==
    /\ Len(pq) < MaxSize
    /\ \E value \in OrderValues : PQCall("push", value, PQPush(compare, pq, value))
    /\ other' = <<>>

NextOrder ==
    \/ OrderNew
    \/ OrderPush
    \/ PQDoPop

SpecOrder == Init /\ [][NextOrder]_vars

----------------------------------------------------------------------------
(* Specification SpecBuild: a queue built from the caller's array of up to *)
(* MaxBuild values in any order, the caller keeping the array, and one     *)
(* call of any method on the queue after that.                             *)

BuildCalls == {"push", "pop", "peek", "remove", "replace", "pushPop", "heapify",
               "toSortedArray", "clear"}

\* The call pq.name(value) on the array a (value is not looked at by the
\* methods that take no argument)
PQInvoke(name, c, a, value) ==
    CASE name = "push"          -> PQPush(c, a, value)
      [] name = "pop"           -> PQPop(c, a)
      [] name = "peek"          -> PQPeek(a)
      [] name = "remove"        -> PQRemove(c, a, value)
      [] name = "replace"       -> PQReplace(c, a, value)
      [] name = "pushPop"       -> PQPushPop(c, a, value)
      [] name = "heapify"       -> Heapify(c, a)
      [] name = "toSortedArray" -> PQToSortedArray(c, a)
      [] name = "clear"         -> PQClear(a)

BuildNew ==
    /\ stage = "new"
    /\ \E comparator \in {"none", "custom"}, type \in {"min", "max"},
          initialValues \in Arrays(MaxBuild) :
           LET n == PQConstructor([comparator |-> comparator, type |-> type,
                                   initialValues |-> initialValues])
           IN  /\ pq' = n.heap
               /\ compare' = n.compare
               /\ options' = [comparator |-> comparator, type |-> type,
                              initialValues |-> n.initialValues,
                              given |-> initialValues, shared |-> n.shared]
               /\ pqObs' = [op |-> "new", arg |-> Undefined, ret |-> Undefined,
                            before |-> initialValues]
               /\ drained' = [start |-> n.heap, rets |-> <<>>, sorted |-> <<>>]
    /\ stage' = "built"
    /\ err' = NoError
    /\ UNCHANGED <<other, ops>>
    /\ UNCHANGED dequeVars

BuildThen ==
    /\ stage = "built"
    /\ \E name \in BuildCalls :
       \E value \in IF name \in {"push", "remove", "replace", "pushPop"}
                    THEN PQValues ELSE {Undefined} :
           LET r == PQInvoke(name, compare, pq, value)
           IN  /\ pq' = r.heap
               /\ pqObs' = [op |-> name, arg |-> value, ret |-> r.ret, before |-> pq]
               /\ options' = IF options.shared
                             THEN [options EXCEPT !.initialValues = r.heap]
                             ELSE options
    /\ stage' = "used"
    /\ err' = NoError
    /\ UNCHANGED <<compare, other, drained, ops>>
    /\ UNCHANGED dequeVars

NextBuild ==
    \/ BuildNew
    \/ BuildThen

SpecBuild == Init /\ [][NextBuild]_vars

----------------------------------------------------------------------------
(* Claims checked under Spec *)

Last == log[Len(log)]

Constructed == deque # Null

\* The calls from the s-th on
CallsFrom(s) == SubSeq(log, s, Len(log))

CountOps(calls, names) == Cardinality({i \in DOMAIN calls : calls[i].op \in names})

\* C1: the deque refines a plain list.  After any interleaving of pushFront,
\* pushBack, popFront, popBack and clear on a newly constructed deque,
\* toArray() is the list that received the same calls (prepend, append,
\* remove-first, remove-last, reset), and every pop returned the element the
\* list removed (nothing, when the list was empty).
C1_RefinesList ==
    Constructed =>
        /\ ToArray(heap, deque) = model
        /\ \A i \in DOMAIN log :
               log[i].op \in PopOps => log[i].ret = log[i].removed

\* C1 witness: the buffer has grown, the live window wraps around the buffer
\* end, and the last call was a pop that returned an element.
C1_Witness ==
    /\ Constructed
    /\ deque.capacity = 2 * DefaultCapacity
    /\ deque.count > 0
    /\ deque.head > deque.tail
    /\ LastOp \in PopOps
    /\ Last.ret # Undefined
    /\ CountOps(log, {"pushFront"}) > 0

\* C4: size accounting.  From any point where the deque is empty, after k
\* pushes and j pops in any order, none of the pops applied to an empty
\* deque, size is k - j; and isEmpty() is true exactly when size is 0.
C4_SizeAccounting ==
    Constructed =>
        /\ IsEmpty(deque) <=> (Size(deque) = 0)
        /\ \A s \in DOMAIN log :
               LET calls == CallsFrom(s)
               IN  (/\ log[s].before = 0
                    /\ \A i \in DOMAIN calls : calls[i].op \in PushOps \cup PopOps
                    /\ \A i \in DOMAIN calls : calls[i].op \in PopOps => calls[i].before > 0)
                   => Size(deque) = CountOps(calls, PushOps) - CountOps(calls, PopOps)

\* C4 witness: since the construction there were only pushes and pops, at
\* both ends, no pop on the empty deque, and elements remain.
C4_Witness ==
    /\ Constructed
    /\ Len(log) > 1
    /\ \A i \in 2..Len(log) : log[i].op \in PushOps \cup PopOps
    /\ \A i \in 2..Len(log) : log[i].op \in PopOps => log[i].before > 0
    /\ CountOps(log, {"popFront"}) > 0
    /\ CountOps(log, {"popBack"}) > 0
    /\ CountOps(log, {"pushFront"}) > 0
    /\ Size(deque) > 0
    /\ Size(deque) = CountOps(log, PushOps) - CountOps(log, PopOps)

\* C5: in every state toArray().length is size, at(i) is toArray()[i] for
\* 0 <= i < size, and at(i) is undefined for i < 0 and for i >= size.
C5_AtMatchesToArray ==
    Constructed =>
        /\ Len(ToArray(heap, deque)) = Size(deque)
        /\ \A i \in 0..(Size(deque) - 1) :
               At(heap, deque, i).ret = ToArray(heap, deque)[i + 1]
        /\ \A i \in (-3..-1) \cup (Size(deque)..(deque.capacity + 2)) :
               At(heap, deque, i).ret = Undefined
        /\ (obs.op = "at" /\ obs.arg >= 0 /\ obs.arg < Size(deque))
               => obs.ret = ToArray(heap, deque)[obs.arg + 1]
        /\ (obs.op = "at" /\ (obs.arg < 0 \/ obs.arg >= Size(deque)))
               => obs.ret = Undefined

\* C5 witness: at(size - 1) was observed on a full buffer whose live window
\* wraps around the buffer end, and gave the last element.
C5_Witness ==
    /\ Constructed
    /\ obs.op = "at"
    /\ obs.arg = Size(deque) - 1
    /\ Size(deque) = deque.capacity
    /\ deque.head > 0
    /\ obs.ret = model[Len(model)]
    /\ obs.ret # Undefined

\* C10: on an empty deque popFront, popBack, peekFront and peekBack return
\* undefined, throw nothing and leave head, tail, count, capacity and the
\* buffer as they were: in every empty state each of the four methods gives
\* that, and every such call that is made has that effect.
C10_EmptyIsNoOp ==
    /\ [](Constructed /\ deque.count = 0 =>
              \A r \in {PopFront(heap, deque), PopBack(heap, deque),
                        PeekFront(heap, deque), PeekBack(heap, deque)} :
                  r.ret = Undefined /\ r.err = NoError /\ r.obj = deque /\ r.heap = heap)
    /\ [][(Constructed /\ deque.count = 0) =>
              /\ (log' # log /\ log'[Len(log')].op \in PopOps) =>
                     /\ log'[Len(log')].ret = Undefined
                     /\ err' = NoError
                     /\ deque' = deque
                     /\ heap' = heap
              /\ (obs' # obs /\ obs'.op \in {"peekFront", "peekBack"}) =>
                     /\ obs'.ret = Undefined
                     /\ err' = NoError
                     /\ deque' = deque
                     /\ heap' = heap]_vars

\* C10 witness: popBack was called on an empty deque whose head and tail are
\* not at slot 0, and peekFront was then observed.
C10_Witness ==
    /\ Constructed
    /\ deque.count = 0
    /\ LastOp = "popBack"
    /\ Last.before = 0
    /\ deque.head > 0
    /\ deque.tail = deque.head
    /\ obs.op = "peekFront"

----------------------------------------------------------------------------
(* Claims checked under SpecRun *)

Min(a, b) == IF a <= b THEN a ELSE b

\* calls is a run: pushes with pushName, then pops with popName.
IsRun(calls, pushName, popName) ==
    LET n == CountOps(calls, {pushName})
    IN  /\ n > 0
        /\ \A i \in DOMAIN calls : calls[i].op = (IF i <= n THEN pushName ELSE popName)

\* The results of the pops of a run are the values pushed, in the order
\* given by `reversed`, as far as there were values left to pop.
RunReturns(calls, pushName, reversed) ==
    LET n == CountOps(calls, {pushName})
        m == Len(calls) - n
    IN  \A i \in 1..Min(m, n) :
            calls[n + i].ret = calls[IF reversed THEN n + 1 - i ELSE i].arg

\* C2: FIFO.  n calls of pushBack on an empty deque (n may exceed the
\* capacity) followed by calls of popFront return the values in the order
\* in which they were pushed.
C2_Fifo ==
    Constructed =>
        \A s \in DOMAIN log :
            (log[s].before = 0 /\ IsRun(CallsFrom(s), "pushBack", "popFront"))
                => RunReturns(CallsFrom(s), "pushBack", FALSE)

\* C2 witness: an empty deque whose head is not at slot 0 took more pushBack
\* calls than its capacity and as many popFront calls.
C2_Witness ==
    /\ Constructed
    /\ rot > 0
    /\ stage = "pop"
    /\ LastOp = "popFront"
    /\ Last.before = 1
    /\ deque.count = 0
    /\ deque.capacity = 2 * DefaultCapacity
    /\ \E s \in DOMAIN log :
           /\ log[s].before = 0
           /\ IsRun(CallsFrom(s), "pushBack", "popFront")
           /\ CountOps(CallsFrom(s), {"pushBack"}) > DefaultCapacity
           /\ CountOps(CallsFrom(s), {"popFront"}) = CountOps(CallsFrom(s), {"pushBack"})

\* C3: LIFO.  n calls of pushFront on an empty deque followed by calls of
\* popFront return the values in the reverse of the order in which they were
\* pushed; so do n calls of pushBack followed by calls of popBack.
C3_Lifo ==
    Constructed =>
        \A s \in DOMAIN log :
            /\ (log[s].before = 0 /\ IsRun(CallsFrom(s), "pushFront", "popFront"))
                   => RunReturns(CallsFrom(s), "pushFront", TRUE)
            /\ (log[s].before = 0 /\ IsRun(CallsFrom(s), "pushBack", "popBack"))
                   => RunReturns(CallsFrom(s), "pushBack", TRUE)

\* C3 witness: an empty deque took more pushFront calls than its capacity
\* and as many popFront calls.
C3_Witness ==
    /\ Constructed
    /\ stage = "pop"
    /\ LastOp = "popFront"
    /\ Last.before = 1
    /\ deque.count = 0
    /\ deque.capacity = 2 * DefaultCapacity
    /\ \E s \in DOMAIN log :
           /\ log[s].before = 0
           /\ IsRun(CallsFrom(s), "pushFront", "popFront")
           /\ CountOps(CallsFrom(s), {"pushFront"}) > DefaultCapacity
           /\ CountOps(CallsFrom(s), {"popFront"}) = CountOps(CallsFrom(s), {"pushFront"})

----------------------------------------------------------------------------
(* Claims checked under SpecGrow *)

\* C6: growth neither loses nor reorders elements.  Whenever pushBack(v) is
\* called with count = capacity, wherever head is, toArray() after the call
\* is toArray() before it with v appended; and pushes alone, through any
\* number of doublings, give the values in the order pushed (100 pushes on
\* new ArrayDeque(2) give 0..99).
C6_GrowthKeepsOrder ==
    /\ [][(/\ Constructed
           /\ deque.count = deque.capacity
           /\ log' # log
           /\ log'[Len(log')].op = "pushBack")
          => ToArray(heap', deque') = Append(ToArray(heap, deque), log'[Len(log')].arg)]_vars
    /\ [](Constructed /\ CountOps(log, PopOps) = 0
              => ToArray(heap, deque) = [i \in 1..NextValue |-> i - 1])

\* C6 witness: the second doubling (32 to 64 slots) has just happened, by a
\* pushBack on a full buffer whose live window wrapped around the buffer end
\* (a popFront had moved head off slot 0 after the first doubling, which
\* itself happened with head off slot 0).
C6_Witness ==
    /\ Constructed
    /\ rot > 0
    /\ LastOp = "pushBack"
    /\ Last.before = 2 * MinCapacity
    /\ deque.capacity = 4 * MinCapacity
    /\ deque.count = Last.before + 1
    /\ \E i \in DOMAIN log : log[i].op = "popFront" /\ log[i].before > MinCapacity

----------------------------------------------------------------------------
(* Claims checked under SpecClone *)

\* C7: clone() gives a deque with the toArray() and the size of the
\* original, and the two are independent afterwards: a push, pop or clear on
\* one of them leaves the toArray() of the other as it was.
C7_CloneIndependent ==
    /\ [](LastOp = "clone" =>
              /\ copy # Null
              /\ ToArray(heap, copy) = ToArray(heap, deque)
              /\ Size(copy) = Size(deque)
              /\ ToArray(heap, deque) = model)
    /\ [][(copy # Null /\ log' # log) =>
              /\ log'[Len(log')].target = "deque"
                     => ToArray(heap', copy') = ToArray(heap, copy)
              /\ log'[Len(log')].target = "copy"
                     => ToArray(heap', deque') = ToArray(heap, deque)]_vars

\* C7 witness: a full deque whose live window wraps around the buffer end
\* was cloned, then the original and the clone were each changed, and their
\* contents differ.
C7_Witness ==
    /\ copy # Null
    /\ \E c \in DOMAIN log :
           /\ log[c].op = "clone"
           /\ log[c].before = DefaultCapacity
           /\ rot > 0
           /\ \E i \in (c + 1)..Len(log) : log[i].target = "deque"
           /\ \E i \in (c + 1)..Len(log) : log[i].target = "copy"
    /\ ToArray(heap, copy) # ToArray(heap, deque)
    /\ Size(copy) > 0
    /\ Size(deque) > 0

----------------------------------------------------------------------------
(* Claims checked under SpecNew *)

\* C8: constructing a deque with a requested capacity below 1 throws
\* "Initial capacity must be at least 1" and gives no object; no other call
\* throws.
C8_OnlyBadCapacityThrows ==
    /\ (LastOp = "new" /\ Last.arg < 1) =>
           /\ err = CapacityError
           /\ deque = Null
           /\ heap = EmptyHeap
           /\ stage = "failed"
    /\ err # NoError => (LastOp = "new" /\ Last.arg < 1)

\* C8 witness: new ArrayDeque(0) has thrown.
C8_Witness ==
    /\ LastOp = "new"
    /\ Last.arg = 0
    /\ err = CapacityError
    /\ deque = Null

\* C9: a deque constructed with a requested capacity c >= 1 starts empty
\* (count 0, head 0, tail 0, every slot empty) with capacity max(c, 16);
\* without an argument the capacity is 16.
C9_StartsEmpty ==
    /\ (LastOp = "new" /\ Last.arg >= 1) =>
           /\ err = NoError
           /\ deque.count = 0 /\ deque.head = 0 /\ deque.tail = 0
           /\ deque.capacity = (IF Last.arg >= 16 THEN Last.arg ELSE 16)
           /\ heap[deque.buffer] = NewArray(deque.capacity)
           /\ ToArray(heap, deque) = <<>>
    /\ LastOp = "newDefault" =>
           /\ err = NoError
           /\ deque.count = 0 /\ deque.head = 0 /\ deque.tail = 0
           /\ deque.capacity = 16
           /\ heap[deque.buffer] = NewArray(16)

\* C9 witness: the constructor was called with a capacity above 16 and the
\* deque has that capacity.
C9_Witness ==
    /\ LastOp = "new"
    /\ Last.arg > 16
    /\ obs.op = "peekFront"
    /\ deque.capacity = Last.arg
    /\ deque.count = 0

----------------------------------------------------------------------------
(* Claims checked under SpecClear *)

\* What a caller can tell about a deque: its fields and the slots of its
\* buffer (not which array object the buffer is).
View(h, d) ==
    [head |-> d.head, tail |-> d.tail, capacity |-> d.capacity, count |-> d.count,
     slots |-> h[d.buffer]]

\* The method `name` applied to the deque d
Apply(name, h, d, arg) ==
    CASE name = "pushFront" -> PushFront(h, d, arg)
      [] name = "pushBack"  -> PushBack(h, d, arg)
      [] name = "popFront"  -> PopFront(h, d)
      [] name = "popBack"   -> PopBack(h, d)
      [] name = "clear"     -> Clear(h, d)

\* The calls `calls` made one after the other on the deque d: the deque
\* after them and their results.
RECURSIVE Replay(_, _, _)
Replay(h, d, calls) ==
    IF calls = <<>> THEN [heap |-> h, obj |-> d, rets |-> <<>>]
    ELSE LET r == Apply(calls[1].op, h, d, calls[1].arg)
             rest == Replay(Collect(r.heap, {r.obj}), r.obj, Tail(calls))
         IN  [rest EXCEPT !.rets = <<r.ret>> \o @]

\* A deque newly constructed with the default capacity
Fresh == Constructor(EmptyHeap, <<>>)

\* C11: clear() from any state, whatever the capacity (requested above 16
\* at construction, or reached by growth), gives count 0, head 0, tail 0,
\* capacity 16 and a buffer of 16 empty slots; and after a clear the deque
\* behaves as a deque newly constructed with the default capacity: the calls
\* made since return what they return on the new deque and leave the same
\* fields, buffer slots and contents.
C11_ClearIsFresh ==
    /\ LastOp = "clear" =>
           /\ deque.count = 0 /\ deque.head = 0 /\ deque.tail = 0
           /\ deque.capacity = 16
           /\ heap[deque.buffer] = NewArray(16)
           /\ err = NoError
    /\ \A s \in DOMAIN log :
           log[s].op = "clear" =>
               LET calls == SubSeq(log, s + 1, Len(log))
                   fresh == Replay(Fresh.heap, Fresh.obj, calls)
               IN  /\ View(heap, deque) = View(fresh.heap, fresh.obj)
                   /\ ToArray(heap, deque) = ToArray(fresh.heap, fresh.obj)
                   /\ \A i \in DOMAIN calls : calls[i].ret = fresh.rets[i]

\* C11 witness: a deque built with a capacity above 16 had grown (it held
\* more elements than the capacity requested) when it was cleared, and
\* pushFront was called after the clear.
C11_Witness ==
    /\ Constructed
    /\ log[1].op = "new"
    /\ log[1].arg > 16
    /\ LastOp = "pushFront"
    /\ Len(log) > 2
    /\ log[Len(log) - 1].op = "clear"
    /\ log[Len(log) - 1].before > log[1].arg
    /\ deque.capacity = 16
    /\ deque.head = 15

----------------------------------------------------------------------------
(* Claims checked under SpecIter *)

\* C12: an iteration of a deque that is not changed meanwhile yields the
\* elements of toArray() in their order, front to back (also when the live
\* window wraps around the buffer end), and nothing for an empty deque;
\* every new iteration starts from the front again and yields the same.
C12_IterationIsToArray ==
    Constructed =>
        \A k \in DOMAIN passes :
            IF k = Len(passes) /\ ~iter.done
            THEN passes[k] = SubSeq(ToArray(heap, deque), 1, Len(passes[k]))
            ELSE passes[k] = ToArray(heap, deque)

\* C12 witness: a full deque whose live window wraps around the buffer end
\* was iterated twice to the end, and both iterations yielded its elements.
C12_Witness ==
    /\ Constructed
    /\ deque.count = deque.capacity
    /\ deque.head > 0
    /\ Len(passes) = 2
    /\ iter.done
    /\ passes[1] = model
    /\ passes[2] = model

----------------------------------------------------------------------------
(* Claims checked under SpecAlias *)

\* The canonical method an alias stands for
Canonical(method) ==
    CASE method \in {"push", "enqueue"}      -> "pushBack"
      [] method = "unshift"                  -> "pushFront"
      [] method = "pop"                      -> "popBack"
      [] method \in {"dequeue", "shift"}     -> "popFront"
      [] method \in {"peek", "top", "back"}  -> "peekBack"
      [] method = "front"                    -> "peekFront"

\* C13: every alias returns what its canonical method returns and has the
\* same effect, from every state: push and enqueue as pushBack, pop as
\* popBack, peek, top and back as peekBack, dequeue and shift as popFront,
\* front as peekFront, unshift as pushFront.  The first part compares the
\* methods in every state; the second is about the calls that are made.
C13_AliasesAreCanonical ==
    /\ [](Constructed =>
              /\ \A v \in {NextValue, Undefined} :
                     /\ Push(heap, deque, v) = PushBack(heap, deque, v)
                     /\ Enqueue(heap, deque, v) = PushBack(heap, deque, v)
                     /\ Unshift(heap, deque, v) = PushFront(heap, deque, v)
              /\ Pop(heap, deque) = PopBack(heap, deque)
              /\ Dequeue(heap, deque) = PopFront(heap, deque)
              /\ Shift(heap, deque) = PopFront(heap, deque)
              /\ Peek(heap, deque) = PeekBack(heap, deque)
              /\ Top(heap, deque) = PeekBack(heap, deque)
              /\ Back(heap, deque) = PeekBack(heap, deque)
              /\ Front(heap, deque) = PeekFront(heap, deque)
              /\ ToArray(heap, deque) = model)
    /\ [][Constructed =>
              /\ log' # log =>
                     LET c == log'[Len(log')]
                         r == Apply(Canonical(c.method), heap, deque, c.arg)
                     IN  /\ c.ret = r.ret
                         /\ err' = r.err
                         /\ deque' = r.obj
                         /\ heap' = Collect(r.heap, {r.obj})
              /\ (obs' # obs /\ obs' # NoObs) =>
                     LET r == IF Canonical(obs'.op) = "peekBack"
                              THEN PeekBack(heap, deque) ELSE PeekFront(heap, deque)
                     IN  /\ obs'.ret = r.ret
                         /\ err' = r.err
                         /\ deque' = deque
                         /\ heap' = heap]_vars

\* C13 witness: elements were added with push, enqueue and unshift, pop has
\* just removed the last of them, and back() shows the one before it.
C13_Witness ==
    /\ Constructed
    /\ \E i \in DOMAIN log : log[i].method = "enqueue"
    /\ \E i \in DOMAIN log : log[i].method = "unshift"
    /\ Last.method = "pop"
    /\ Last.ret = Last.removed
    /\ Last.ret # Undefined
    /\ deque.head > deque.tail
    /\ obs.op = "back"
    /\ obs.ret = model[Len(model)]

----------------------------------------------------------------------------
(* Claims checked under SpecStore *)

\* C14 as stated: whatever values are stored, popFront, popBack, peekFront
\* and peekBack return undefined only when count = 0, and at(i) returns
\* undefined only when i < 0 or i >= count.  This fails: undefined is a
\* value that can be stored.
C14_SentinelMeansAbsent ==
    /\ \A i \in DOMAIN log :
           (log[i].op \in PopOps /\ log[i].ret = Undefined) => log[i].before = 0
    /\ (obs.op \in {"peekFront", "peekBack"} /\ obs.ret = Undefined) => deque.count = 0
    /\ (obs.op = "at" /\ obs.ret = Undefined) => (obs.arg < 0 \/ obs.arg >= deque.count)

\* No push was called with undefined.
NoUndefinedStored == \A i \in DOMAIN log : log[i].op \in PushOps => log[i].arg # Undefined

\* C14 amended: popFront, popBack, peekFront and peekBack return undefined
\* only when count = 0 or the element at that end is a stored undefined,
\* and at(i) only when i is out of range or element i is a stored
\* undefined; so as long as undefined itself is never stored, undefined
\* means absence.
C14_SentinelUnlessStored ==
    /\ \A i \in DOMAIN log :
           (log[i].op \in PopOps /\ log[i].ret = Undefined /\ log[i].before > 0)
               => log[i].removed = Undefined
    /\ (obs.op = "peekFront" /\ obs.ret = Undefined /\ deque.count > 0)
           => model[1] = Undefined
    /\ (obs.op = "peekBack" /\ obs.ret = Undefined /\ deque.count > 0)
           => model[Len(model)] = Undefined
    /\ (obs.op = "at" /\ obs.ret = Undefined /\ obs.arg >= 0 /\ obs.arg < deque.count)
           => model[obs.arg + 1] = Undefined
    /\ (Constructed /\ NoUndefinedStored) => C14_SentinelMeansAbsent

\* C14 witness: undefined was stored next to numbers; popFront has just
\* returned a number from the deque, whose live window wraps around the
\* buffer end, and at(size - 1) shows the stored undefined.
C14_Witness ==
    /\ Constructed
    /\ ~NoUndefinedStored
    /\ LastOp = "popFront"
    /\ Last.ret # Undefined
    /\ deque.head > deque.tail
    /\ obs.op = "at"
    /\ obs.arg = deque.count - 1
    /\ obs.arg > 0
    /\ obs.ret = Undefined

----------------------------------------------------------------------------
(* Claims checked under SpecFrom *)

\* C15: a deque constructed from an array of len elements has capacity
\* max(16, 2 * len), head 0, tail len, count len, the elements in slots
\* 0..len-1 and toArray() equal to the array; for every len >= 0 that state
\* satisfies the invariants of the deque (the indices within the buffer,
\* tail = (head + count) mod capacity, and count < capacity), and the deque
\* goes on as the list that started with the array.
C15_FromElements ==
    /\ LastOp = "newFrom" =>
           LET len == Last.arg
               elements == Elements(len)
           IN  /\ err = NoError
               /\ deque.capacity = (IF 2 * len >= 16 THEN 2 * len ELSE 16)
               /\ deque.head = 0
               /\ deque.tail = len
               /\ deque.count = len
               /\ Len(heap[deque.buffer]) = deque.capacity
               /\ \A i \in 0..(len - 1) : Get(heap[deque.buffer], i) = elements[i + 1]
               /\ \A i \in len..(deque.capacity - 1) : Get(heap[deque.buffer], i) = Undefined
               /\ ToArray(heap, deque) = elements
               /\ deque.head < deque.capacity
               /\ deque.tail < deque.capacity
               /\ deque.count < deque.capacity
               /\ deque.tail = JsMod(deque.head + deque.count, deque.capacity)
    /\ Constructed => ToArray(heap, deque) = model

\* C15 witness: a deque was constructed from more than 8 elements, so that
\* its capacity is twice their number, above 16.
C15_Witness ==
    /\ LastOp = "newFrom"
    /\ Last.arg > 8
    /\ deque.capacity = 2 * Last.arg
    /\ deque.count = Last.arg
    /\ model = Elements(Last.arg)

----------------------------------------------------------------------------
(* Claims checked under SpecPQ *)

\* The number of occurrences of v in the array a
Count(a, v) == Cardinality({i \in DOMAIN a : a[i] = v})

\* The arrays a and b hold the same values, each as often
SameContents(a, b) == \A v \in PQValues : Count(a, v) = Count(b, v)

\* No child strictly outranks its parent.
HeapInvariant(c, a) ==
    \A i \in 1..(Len(a) - 1) : Compare(c, Get(a, i), Get(a, (i - 1) \div 2)) >= 0

\* C16: pops come in sorted order.  Whatever calls set the queue up, for
\* the pops that follow one another until the queue is empty, each result a
\* and the next b have compare(a, b) <= 0 (equal values included), and the
\* results are all the values the queue held.
C16_PopsSorted ==
    stage = "pq" =>
        /\ \A i \in 1..(Len(drained.rets) - 1) :
               Compare(compare, drained.rets[i], drained.rets[i + 1]) <= 0
        /\ SameContents(drained.rets \o pq, drained.start)
        /\ pq = <<>> => SameContents(drained.rets, drained.start)

\* C16 witness: a queue of six values, some of them equal, was popped until
\* it was empty.
C16_Witness ==
    /\ stage = "pq"
    /\ pq = <<>>
    /\ pqObs.op = "pop"
    /\ Len(drained.rets) = 6
    /\ Len(drained.start) = 6
    /\ \A v \in 0..2 : Count(drained.rets, v) > 0
    /\ drained.rets # drained.start

\* C17: the heap invariant.  After the constructor (with initial values in
\* any order) and after every push, pop, remove, replace, pushPop, merge,
\* heapify and clear, every index i > 0 of the array has
\* compare(heap[i], heap[floor((i-1)/2)]) >= 0.
C17_HeapInvariant ==
    stage = "pq" => HeapInvariant(compare, pq)

\* C17 witness: remove has just taken a value from inside a queue of six
\* and sifted the value that took its place up.
C17_Witness ==
    /\ stage = "pq"
    /\ pqObs.op = "remove"
    /\ pqObs.ret = TRUE
    /\ Len(pqObs.before) = 6
    /\ IndexOf(pqObs.before, pqObs.arg) = 3
    /\ Get(pq, 1) = Get(pqObs.before, 5)
    /\ Get(pq, 1) # Get(pqObs.before, 1)

\* C18: remove(v) on a queue that holds v returns true, makes the queue one
\* shorter, takes out one occurrence of v and nothing else, and keeps the
\* heap invariant, wherever the first v is (root, inner node, leaf, last
\* slot); on a queue that does not hold v it returns false and leaves the
\* array as it was.
C18_Remove ==
    pqObs.op = "remove" =>
        LET b == pqObs.before
            v == pqObs.arg
        IN  IF Count(b, v) > 0
            THEN /\ pqObs.ret = TRUE
                 /\ Len(pq) = Len(b) - 1
                 /\ Count(pq, v) = Count(b, v) - 1
                 /\ \A w \in PQValues \ {v} : Count(pq, w) = Count(b, w)
                 /\ HeapInvariant(compare, pq)
            ELSE /\ pqObs.ret = FALSE
                 /\ pq = b

\* C18 witness: remove(v) took the first of two occurrences of v out of a
\* queue of six, where it was an inner node; the other one is still there.
C18_Witness ==
    /\ pqObs.op = "remove"
    /\ pqObs.ret = TRUE
    /\ Len(pqObs.before) = 6
    /\ Count(pqObs.before, pqObs.arg) = 2
    /\ IndexOf(pqObs.before, pqObs.arg) = 1
    /\ Count(pq, pqObs.arg) = 1

\* C19: on an empty queue pop() and peek() return undefined, throw nothing
\* and leave the queue empty; on a non-empty queue peek() returns heap[0]
\* and leaves the array as it was, and the next pop() returns that value.
C19_PopPeek ==
    /\ (pqObs.op \in {"pop", "peek"} /\ pqObs.before = <<>>) =>
           /\ pqObs.ret = Undefined
           /\ pq = <<>>
           /\ err = NoError
    /\ (pqObs.op = "peek" /\ pqObs.before # <<>>) =>
           /\ pqObs.ret = pqObs.before[1]
           /\ pq = pqObs.before
           /\ PQPop(compare, pq).ret = pqObs.ret
    /\ (pqObs.op = "pop" /\ pqObs.before # <<>>) =>
           pqObs.ret = PQPeek(pqObs.before).ret

\* C19 witness: the queue was popped until it was empty, and then once more.
C19_Witness ==
    /\ stage = "pq"
    /\ pqObs.op = "pop"
    /\ pqObs.before = <<>>
    /\ pqObs.ret = Undefined
    /\ Len(drained.rets) > 1
    /\ pq = <<>>

\* C20: replace(v) on an empty queue inserts v (size 1) and returns
\* undefined; on a non-empty queue it returns the root, leaves the size as
\* it was, and the contents are those before without one occurrence of the
\* root and with v, the heap invariant holding.  In both cases the result
\* and the contents are those of pop() followed by push(v).
C20_Replace ==
    pqObs.op = "replace" =>
        LET b == pqObs.before
            v == pqObs.arg
            popped == PQPop(compare, b)
            pushed == PQPush(compare, popped.heap, v)
        IN  /\ IF b = <<>>
               THEN pqObs.ret = Undefined /\ pq = <<v>>
               ELSE /\ pqObs.ret = b[1]
                    /\ Len(pq) = Len(b)
                    /\ SameContents(pq \o <<b[1]>>, b \o <<v>>)
            /\ HeapInvariant(compare, pq)
            /\ pqObs.ret = popped.ret
            /\ SameContents(pq, pushed.heap)

\* C20 witness: replace(v) on a queue of six returned the root, and v went
\* down from the root to a lower slot.
C20_Witness ==
    /\ pqObs.op = "replace"
    /\ Len(pqObs.before) = 6
    /\ pqObs.ret = pqObs.before[1]
    /\ pqObs.arg # pqObs.ret
    /\ pq[1] # pqObs.arg
    /\ Count(pq, pqObs.arg) = Count(pqObs.before, pqObs.arg) + 1

\* C21: pushPop(v) on an empty queue, or with compare(v, root) < 0, returns
\* v and leaves the array as it was (v is not stored); otherwise, also when
\* compare(v, root) = 0, it returns the root and stores v, the size staying
\* as it was.
C21_PushPop ==
    pqObs.op = "pushPop" =>
        LET b == pqObs.before
            v == pqObs.arg
        IN  IF b = <<>> \/ Compare(compare, v, b[1]) < 0
            THEN pqObs.ret = v /\ pq = b
            ELSE /\ pqObs.ret = b[1]
                 /\ Len(pq) = Len(b)
                 /\ SameContents(pq \o <<b[1]>>, b \o <<v>>)

\* C21 witness: pushPop(v) with a v that ties with the root without being
\* equal to it returned the root of a queue of six and stored v.
C21_Witness ==
    /\ pqObs.op = "pushPop"
    /\ Len(pqObs.before) = 6
    /\ Compare(compare, pqObs.arg, pqObs.before[1]) = 0
    /\ pqObs.arg # pqObs.before[1]
    /\ pqObs.ret = pqObs.before[1]
    /\ Count(pq, pqObs.arg) = Count(pqObs.before, pqObs.arg) + 1

\* C22: pushPop(v) is push(v) followed by pop().  For a comparator that is
\* a total order, from every queue and for every v, pushPop(v) returns what
\* pop() returns after push(v) on a copy of the queue and leaves the same
\* contents; and no value left in the queue strictly outranks the value
\* returned.
C22_PushPopIsPushThenPop ==
    (pqObs.op = "pushPop" /\ compare \in {"min", "max"}) =>
        LET pushed == PQPush(compare, pqObs.before, pqObs.arg)
            popped == PQPop(compare, pushed.heap)
        IN  /\ pqObs.ret = popped.ret
            /\ SameContents(pq, popped.heap)
            /\ Len(pq) = Len(popped.heap)
            /\ \A i \in DOMAIN pq : Compare(compare, pq[i], pqObs.ret) >= 0

\* C22 witness: on a max-heap of six, pushPop(v) with a v below the root
\* returned the root and kept v.
C22_Witness ==
    /\ pqObs.op = "pushPop"
    /\ compare = "max"
    /\ Len(pqObs.before) = 6
    /\ pqObs.arg < pqObs.before[1]
    /\ pqObs.ret = pqObs.before[1]
    /\ pq # pqObs.before

\* C23: merge(other) with a second queue leaves the array of other as it
\* was, makes the receiver's contents the multiset union of the two (its
\* size the sum of the sizes) and leaves the receiver a heap under its own
\* comparator, whatever the heap type other was built with; the loop gives
\* what the one-step merge gives.
C23_Merge ==
    (pqObs.op = "merge" /\ iter.target = "other") =>
        /\ other = pqObs.arg
        /\ stage = "pq" =>
               /\ SameContents(pq, pqObs.before \o pqObs.arg)
               /\ Len(pq) = Len(pqObs.before) + Len(pqObs.arg)
               /\ HeapInvariant(compare, pq)
               /\ pq = PQMerge(compare, pqObs.before, pqObs.arg).heap

\* C23 witness: a min-heap of four was merged with a max-heap of two whose
\* array is not a min-heap, and the merge has returned.
C23_Witness ==
    /\ pqObs.op = "merge"
    /\ iter.target = "other"
    /\ stage = "pq"
    /\ compare = "min"
    /\ Len(pqObs.before) = 4
    /\ Len(other) = 2
    /\ ~HeapInvariant(compare, other)
    /\ Len(pq) = 6
    /\ pq[1] = other[2]

\* C24: merge ends for every argument, the receiver itself included: the
\* loop appends no more values than the argument held at the call, and when
\* merge has returned the size is the size before plus the size the
\* argument had before.
C24_MergeEnds ==
    pqObs.op = "merge" =>
        /\ Len(pq) <= Len(pqObs.before) + Len(pqObs.arg)
        /\ stage = "pq" => Len(pq) = Len(pqObs.before) + Len(pqObs.arg)

\* a strictly decreases (down = FALSE) or strictly increases (down = TRUE)
\* from index and stays within 0..(length - 1)
Monotone(path, index, length, down) ==
    /\ path[1] = index
    /\ \A k \in DOMAIN path : path[k] >= 0 /\ path[k] < length
    /\ \A k \in 1..(Len(path) - 1) :
           IF down THEN path[k + 1] > path[k] ELSE path[k + 1] < path[k]

\* C25: with a comparator that is no order (not transitive, not
\* antisymmetric, compare(a, a) not 0) every operation returns and throws
\* nothing: construction from initial values, push, pop, remove, replace,
\* pushPop, heapify and toSortedArray.  From every index of every array
\* reached, the index moved by bubbleUp strictly decreases and the index
\* moved by bubbleDown strictly increases, within the array.  The array
\* stays dense, and its contents change as the operation says and no
\* further.
C25_AnyComparator ==
    LET b == pqObs.before
        v == pqObs.arg
        op == pqObs.op
    IN  /\ err = NoError
        /\ compare \in AnyComparators =>
               /\ \A i \in DOMAIN pq : pq[i] \in PQValues
               /\ \A index \in 0..(Len(pq) - 1) :
                      LET up == BubbleUpPath(compare, pq, index)
                          down == BubbleDownPath(compare, pq, index)
                      IN  /\ Monotone(up, index, Len(pq), FALSE)
                          /\ Monotone(down, index, Len(pq), TRUE)
                          /\ Get(BubbleUp(compare, pq, index), up[Len(up)]) = Get(pq, index)
                          /\ Get(BubbleDown(compare, pq, index), down[Len(down)])
                                 = Get(pq, index)
                          /\ SameContents(BubbleUp(compare, pq, index), pq)
                          /\ SameContents(BubbleDown(compare, pq, index), pq)
               /\ op \in {"new", "heapify"} => SameContents(pq, b) /\ Len(pq) = Len(b)
               /\ op = "push" => SameContents(pq, b \o <<v>>) /\ pqObs.ret = Len(b) + 1
               /\ (op = "pop" /\ b = <<>>) => pq = <<>> /\ pqObs.ret = Undefined
               /\ (op = "pop" /\ b # <<>>) =>
                      pqObs.ret = b[1] /\ SameContents(pq \o <<b[1]>>, b)
               /\ op = "remove" =>
                      IF Count(b, v) > 0
                      THEN SameContents(pq \o <<v>>, b)
                      ELSE pq = b
               /\ (op = "replace" /\ b = <<>>) => pq = <<v>>
               /\ (op = "replace" /\ b # <<>>) =>
                      pqObs.ret = b[1] /\ SameContents(pq \o <<b[1]>>, b \o <<v>>)
               /\ op = "pushPop" =>
                      /\ SameContents(pq \o <<pqObs.ret>>, b \o <<v>>)
                      /\ Len(pq) = Len(b)
               /\ op = "toSortedArray" =>
                      /\ pq = b
                      /\ SameContents(pqObs.ret, b)
                      /\ Len(pqObs.ret) = Len(b)

\* C25 witness: under the comparator that is not transitive, a push onto a
\* queue of three or more moved the new value up by two levels.
C25_Witness ==
    /\ compare = "cyclic"
    /\ pqObs.op = "push"
    /\ Len(pqObs.before) >= 3
    /\ Len(BubbleUpPath(compare, Append(pqObs.before, pqObs.arg), Len(pqObs.before))) = 3
    /\ pq[1] = pqObs.arg
    /\ \E i, j, k \in DOMAIN pq :
           /\ Compare(compare, pq[i], pq[j]) < 0
           /\ Compare(compare, pq[j], pq[k]) < 0
           /\ Compare(compare, pq[k], pq[i]) < 0

\* s is sorted under the comparator c: no value outranks the one before it
Sorted(c, s) == \A k \in 1..(Len(s) - 1) : Compare(c, s[k], s[k + 1]) <= 0

\* C26: toSortedArray() returns all the values of the queue in sorted
\* order, the sequence that pop() after pop() returns, and has no effect
\* that can be observed: the array holds the same values at the same
\* places, so that size, peek(), toArray() and the heap invariant are as
\* before; on the empty queue it returns the empty sequence.
C26_ToSortedArray ==
    /\ pqObs.op = "toSortedArray" =>
           /\ pq = pqObs.before
           /\ PQSize(pq) = PQSize(pqObs.before)
           /\ PQPeek(pq).ret = PQPeek(pqObs.before).ret
           /\ PQToArray(pq).ret = PQToArray(pqObs.before).ret
           /\ HeapInvariant(compare, pq)
           /\ Sorted(compare, pqObs.ret)
           /\ SameContents(pqObs.ret, pqObs.before)
           /\ Len(pqObs.ret) = Len(pqObs.before)
           /\ pqObs.before = <<>> => pqObs.ret = <<>>
    /\ Len(drained.sorted) > 0 =>
           /\ Len(drained.rets) <= Len(drained.sorted)
           /\ drained.rets = SubSeq(drained.sorted, 1, Len(drained.rets))
           /\ Len(pq) = Len(drained.sorted) - Len(drained.rets)

\* C26 witness: toSortedArray() on a queue of six whose comparator has
\* ties was followed by six pops, which returned the sequence it returned.
C26_Witness ==
    /\ compare = "custom"
    /\ Len(drained.sorted) = 6
    /\ drained.rets = drained.sorted
    /\ drained.start # drained.sorted
    /\ pqObs.op = "pop"
    /\ pq = <<>>
    /\ \E k \in 1..5 : drained.sorted[k] > drained.sorted[k + 1]

\* C27: the default ordering.  Without a comparator, and without a type or
\* with type "min", the queue pops in ascending order: after push(5),
\* push(1), push(3) the pops give 1, 3, 5.  With type "max" and no
\* comparator it pops in descending order.  With a comparator the type has
\* no effect: the queue pops in the comparator's order, whatever the type.
C27_DefaultOrdering ==
    LET rets == drained.rets
    IN  /\ (options.comparator = "none" /\ options.type \in {"absent", "min"}) =>
               /\ compare = "min"
               /\ \A k \in 1..(Len(rets) - 1) : rets[k] <= rets[k + 1]
               /\ \A k \in DOMAIN rets, i \in DOMAIN pq : rets[k] <= pq[i]
               /\ drained.start = <<1, 5, 3>> =>
                      rets = SubSeq(<<1, 3, 5>>, 1, Len(rets))
        /\ (options.comparator = "none" /\ options.type = "max") =>
               /\ compare = "max"
               /\ \A k \in 1..(Len(rets) - 1) : rets[k] >= rets[k + 1]
               /\ \A k \in DOMAIN rets, i \in DOMAIN pq : rets[k] >= pq[i]
        /\ options.comparator # "none" =>
               /\ compare = options.comparator
               /\ \A k \in 1..(Len(rets) - 1) :
                      Compare(options.comparator, rets[k], rets[k + 1]) <= 0
               /\ \A k \in DOMAIN rets, i \in DOMAIN pq :
                      Compare(options.comparator, rets[k], pq[i]) <= 0

\* C27 witness: a queue built with a comparator and type "max" was pushed
\* 5, 1 and 3 and popped 1, 3, 5, the comparator's order.
C27_Witness ==
    /\ options.comparator = "custom"
    /\ options.type = "max"
    /\ drained.start = <<1, 5, 3>>
    /\ drained.rets = <<1, 3, 5>>
    /\ pq = <<>>

\* C28: a queue constructed from a non-empty array, in whatever order,
\* holds the multiset of the array and is a heap (heapify sifts down every
\* index from floor(n / 2) - 1 to 0); the array is copied, not shared: the
\* caller's array is as it was given, after the construction and after the
\* call that follows it.
C28_FromInitialValues ==
    (stage \in {"built", "used"} /\ options.given # <<>>) =>
        /\ ~options.shared
        /\ options.initialValues = options.given
        /\ stage = "built" =>
               /\ SameContents(pq, options.given)
               /\ Len(pq) = Len(options.given)
               /\ HeapInvariant(compare, pq)
               /\ \A i \in 0..((Len(pq) \div 2) - 1) :
                      BubbleDown(compare, pq, i) = pq

\* C28 witness: a queue was built from five values in an order that is no
\* heap, holds them as a heap, and after a pop the caller's array is still
\* in the order it was given in.
C28_Witness ==
    /\ stage = "used"
    /\ pqObs.op = "pop"
    /\ Len(options.given) = 5
    /\ ~HeapInvariant(compare, options.given)
    /\ options.given[1] # pqObs.before[1]
    /\ options.initialValues = options.given
    /\ Len(pq) = 4

\* The deque objects there are: the one under test and its clone
Objects == {d \in {deque, copy} : d # Null}

\* C29: in every state reached by the constructor, the pushes, the pops,
\* clear and clone, of every deque object: 0 <= head < capacity,
\* 0 <= tail < capacity, 0 <= count <= capacity, and the length of the
\* buffer is capacity.
C29_IndexBounds ==
    \A d \in Objects :
        /\ 0 <= d.head /\ d.head < d.capacity
        /\ 0 <= d.tail /\ d.tail < d.capacity
        /\ 0 <= d.count /\ d.count <= d.capacity
        /\ Len(heap[d.buffer]) = d.capacity

\* C29 witness: the deque has grown by a pushFront, so that head is at the
\* last slot of the doubled buffer, and was cloned after that.
C29_Witness ==
    /\ Constructed
    /\ copy # Null
    /\ deque.capacity = 2 * DefaultCapacity
    /\ deque.head = deque.capacity - 1
    /\ deque.tail = DefaultCapacity
    /\ copy.head = deque.head
    /\ copy.buffer # deque.buffer
    /\ Len(heap[copy.buffer]) = 2 * DefaultCapacity

\* C30: in every state of every deque object tail is (head + count) mod
\* capacity; so head = tail exactly when the deque is empty or full, and
\* count alone tells which.
C30_TailFollowsHead ==
    \A d \in Objects :
        /\ d.tail = JsMod(d.head + d.count, d.capacity)
        /\ (d.head = d.tail) <=> (d.count = 0 \/ d.count = d.capacity)

\* C30 witness: the deque is full with head = tail away from slot 0, and
\* its clone, after a popFront, is neither empty nor full and has head and
\* tail apart.
C30_Witness ==
    /\ Constructed
    /\ copy # Null
    /\ deque.count = deque.capacity
    /\ deque.head = deque.tail
    /\ deque.head > 0
    /\ copy.count < copy.capacity
    /\ copy.head # copy.tail
    /\ LastOp = "popFront"
    /\ Last.target = "copy"

\* The slots of the live window of d
Window(d) == {JsMod(d.head + i, d.capacity) : i \in 0..(d.count - 1)}

\* C31: vacated slots are released.  In every state of every deque object,
\* after growth, clear and clone too, every slot of the buffer outside the
\* live window {(head + i) mod capacity : 0 <= i < count} reads as
\* undefined; in particular the slot a popFront or popBack has just
\* vacated does.
C31_VacatedSlotsReleased ==
    /\ \A d \in Objects :
           \A slot \in (0..(d.capacity - 1)) \ Window(d) :
               Get(heap[d.buffer], slot) = Undefined
    /\ (Constructed /\ LastOp \in PopOps /\ Last.before > 0) =>
           LET d == Obj(Last.target)
               vacated == IF LastOp = "popFront"
                          THEN JsMod(d.head - 1 + d.capacity, d.capacity)
                          ELSE d.tail
           IN  Get(heap[d.buffer], vacated) = Undefined

\* C31 witness: the clone of a grown deque gave up its last element by
\* popBack; its slot is released in the clone's buffer and still holds the
\* element in the original's.
C31_Witness ==
    /\ Constructed
    /\ copy # Null
    /\ copy.capacity = 2 * DefaultCapacity
    /\ LastOp = "popBack"
    /\ Last.target = "copy"
    /\ Last.ret # Undefined
    /\ Get(heap[copy.buffer], copy.tail) = Undefined
    /\ Get(heap[deque.buffer], copy.tail) = Last.ret

\* C32: the growth step.  A push grows the buffer exactly when count =
\* capacity on entry.  The grow doubles the capacity, copies the count
\* elements from the slots (head + i) mod oldCapacity to the slots
\* 0..count-1 and sets head = 0 and tail = count.  After a pushFront(v)
\* that grew, v is at slot 2 * oldCapacity - 1 (head wraps to the last
\* slot) and toArray() is v followed by the contents before; after a
\* pushBack(v) that grew, v is at slot oldCapacity.
C32_GrowthStep ==
    [][(Constructed /\ log' # log /\ log'[Len(log')].op \in PushOps) =>
          LET v == log'[Len(log')].arg
              op == log'[Len(log')].op
              oldCapacity == deque.capacity
              before == ToArray(heap, deque)
              grown == Grow(heap, deque)
          IN  /\ (deque'.capacity # oldCapacity) <=> (deque.count = oldCapacity)
              /\ (deque.count = oldCapacity) =>
                     /\ deque'.capacity = 2 * oldCapacity
                     /\ Len(heap'[deque'.buffer]) = 2 * oldCapacity
                     /\ grown.obj.head = 0
                     /\ grown.obj.tail = deque.count
                     /\ grown.obj.capacity = 2 * oldCapacity
                     /\ \A i \in 0..(deque.count - 1) :
                            /\ Get(grown.heap[grown.obj.buffer], i) = before[i + 1]
                            /\ Get(heap'[deque'.buffer], i) = before[i + 1]
                     /\ op = "pushFront" =>
                            /\ deque'.head = 2 * oldCapacity - 1
                            /\ deque'.tail = deque.count
                            /\ Get(heap'[deque'.buffer], 2 * oldCapacity - 1) = v
                            /\ ToArray(heap', deque') = <<v>> \o before
                     /\ op = "pushBack" =>
                            /\ deque'.head = 0
                            /\ deque'.tail = deque.count + 1
                            /\ Get(heap'[deque'.buffer], oldCapacity) = v
                            /\ ToArray(heap', deque') = Append(before, v)]_vars

\* C32 witness: a pushFront found the buffer full, its window starting
\* away from slot 0, and grew it; the new element is at the last slot.
C32_Witness ==
    /\ Constructed
    /\ rot > 0
    /\ LastOp = "pushFront"
    /\ Last.before = DefaultCapacity
    /\ deque.capacity = 2 * DefaultCapacity
    /\ deque.head = 2 * DefaultCapacity - 1
    /\ deque.tail = DefaultCapacity
    /\ Get(heap[deque.buffer], deque.head) = Last.arg

\* The name of the call a step makes: the call it appends to the history,
\* or "none"
Called == IF log' # log THEN log'[Len(log')].op ELSE "none"

\* C33: the capacity of a deque is at least 16 in every state and changes
\* in two ways only: a push entered with count = capacity doubles it, and
\* clear resets it to 16.  popFront, popBack and the queries never change
\* it (the buffer does not shrink on removal), and the clone has the
\* capacity of the original.
C33_CapacityChanges ==
    /\ [](\A d \in Objects : d.capacity >= MinCapacity)
    /\ [][Constructed =>
              /\ deque'.capacity # deque.capacity =>
                     \/ /\ Called \in PushOps
                        /\ deque.count = deque.capacity
                        /\ deque'.capacity = 2 * deque.capacity
                     \/ /\ Called = "clear"
                        /\ deque'.capacity = ClearCapacity
              /\ Called = "clear" => deque'.capacity = ClearCapacity
              /\ (Called \in PushOps /\ deque.count = deque.capacity) =>
                     deque'.capacity = 2 * deque.capacity
              /\ (Called \in PopOps \/ Called = "none") =>
                     deque'.capacity = deque.capacity
              /\ Called = "clone" =>
                     /\ copy'.capacity = deque.capacity
                     /\ deque'.capacity = deque.capacity]_vars

\* C33 witness: a deque grown to twice the minimum was popped, queried and
\* cloned, and the clone has the grown capacity.
C33_Witness ==
    /\ Constructed
    /\ copy # Null
    /\ deque.capacity = 2 * MinCapacity
    /\ copy.capacity = 2 * MinCapacity
    /\ LastOp = "clone"
    /\ CountOps(log, PopOps) > 0
    /\ obs.op = "size"
    /\ obs.ret = MinCapacity

\* C34: the queries do not mutate.  From every state peekFront, peekBack,
\* at, toArray, toString, size, isEmpty, a whole iteration and clone leave
\* head, tail, count, capacity and every slot of the buffer of the receiver
\* as they were; and on a non-empty deque peekFront returns the value the
\* next popFront returns, peekBack the value the next popBack returns.
C34_QueriesDoNotMutate ==
    /\ [][(Constructed /\ Called \in {"none", "clone"}) =>
              /\ deque' = deque
              /\ heap'[deque'.buffer] = heap[deque.buffer]]_vars
    /\ [][(Constructed /\ deque.count > 0) =>
              /\ (obs.op = "peekFront" /\ Called = "popFront") =>
                     log'[Len(log')].ret = obs.ret
              /\ (obs.op = "peekBack" /\ Called = "popBack") =>
                     log'[Len(log')].ret = obs.ret]_vars
    /\ [](Constructed /\ deque.count > 0 =>
              /\ obs.op = "peekFront" => obs.ret = PopFront(heap, deque).ret
              /\ obs.op = "peekBack" => obs.ret = PopBack(heap, deque).ret)

\* C34 witness: a whole iteration was made over a grown deque whose window
\* wraps around the end of the buffer, after it was cloned, and gave the
\* contents from front to back.
C34_Witness ==
    /\ Constructed
    /\ copy # Null
    /\ deque.capacity = 2 * DefaultCapacity
    /\ deque.head > deque.tail
    /\ deque.count > DefaultCapacity
    /\ obs.op = "iterate"
    /\ obs.ret = model
    /\ copy.head = deque.head

\* The array before the last remove with its last element moved to the
\* place of the first match
Relocated == Set(ArrayPop(pqObs.before), IndexOf(pqObs.before, pqObs.arg),
                 pqObs.before[Len(pqObs.before)])

Unsifted ==
    IF pqObs.op = "replace" THEN Set(pqObs.before, 0, pqObs.arg)
    ELSE Set(ArrayPop(pqObs.before), 0, pqObs.before[Len(pqObs.before)])

\* C36: which child a sift-down takes.  The node is swapped with its left
\* child only if the left child strictly outranks it, and with its right
\* child only if the right child strictly outranks the better of the node
\* and the left child; so of two children that tie with each other and
\* outrank the node the left is taken, and when no child strictly outranks
\* the node, ties included, the walk stops without a swap.  A sift-up too
\* swaps on strict precedence only: a pushed value that ties with its
\* parent stays below it.
C36_ChildSelection ==
    /\ ((pqObs.op = "replace" /\ Len(pqObs.before) >= 1)
           \/ (pqObs.op = "pop" /\ Len(pqObs.before) >= 2)) =>
          LET a == Unsifted
              hasLeft == Len(a) > 1
              hasRight == Len(a) > 2
              leftWins == hasLeft /\ Compare(compare, Get(a, 1), Get(a, 0)) < 0
              rightOverNode == hasRight /\ Compare(compare, Get(a, 2), Get(a, 0)) < 0
              rightOverLeft == hasRight /\ Compare(compare, Get(a, 2), Get(a, 1)) < 0
              path == BubbleDownPath(compare, a, 0)
              final == path[Len(path)]
          IN  /\ (~leftWins /\ ~rightOverNode) => pq = a
              /\ (leftWins /\ ~rightOverLeft) =>
                     /\ Get(pq, 0) = Get(a, 1)
                     /\ hasRight => Get(pq, 2) = Get(a, 2)
              /\ (leftWins /\ rightOverLeft) =>
                     /\ Get(pq, 0) = Get(a, 2)
                     /\ Get(pq, 1) = Get(a, 1)
              /\ (~leftWins /\ rightOverNode) =>
                     /\ Get(pq, 0) = Get(a, 2)
                     /\ Get(pq, 1) = Get(a, 1)
              /\ Get(pq, final) = Get(a, 0)
              /\ \A child \in {GetLeftChildIndex(final), GetRightChildIndex(final)} :
                     child < Len(pq) =>
                         Compare(compare, Get(pq, child), Get(pq, final)) >= 0
    /\ (pqObs.op = "push" /\ Len(pqObs.before) >= 1) =>
          LET index == Len(pqObs.before)
              parentIdx == GetParentIndex(index)
          IN  IF Compare(compare, pqObs.arg, Get(pqObs.before, parentIdx)) >= 0
              THEN pq = Append(pqObs.before, pqObs.arg)
              ELSE /\ Get(pq, index) = Get(pqObs.before, parentIdx)
                   /\ \E i \in 0..parentIdx : Get(pq, i) = pqObs.arg

\* C36 witness: replace put at the root a value that both children
\* outrank, the children tying with each other without being equal; the
\* left child went up and the right child stayed.
C36_Witness ==
    /\ pqObs.op = "replace"
    /\ Len(pqObs.before) >= 5
    /\ Compare(compare, pqObs.before[2], pqObs.before[3]) = 0
    /\ pqObs.before[2] # pqObs.before[3]
    /\ Compare(compare, pqObs.before[2], pqObs.arg) < 0
    /\ pq[1] = pqObs.before[2]
    /\ pq[3] = pqObs.before[3]
    /\ pq[2] # pqObs.arg

----------------------------------------------------------------------------
(* Claims checked under SpecContent *)

\* The array b holds what the array a holds and the value v `by` times more
Shifted(a, b, v, by) ==
    /\ Len(b) = Len(a) + by
    /\ \A w \in PQValues :
           Count(b, w) = Count(a, w) + (IF w = v THEN by ELSE 0)

\* C37: the values a queue holds change only so: push(v) adds one v and
\* returns the new size; pop of a non-empty queue takes one occurrence of
\* the value it returns; a successful remove(v) takes one v; heapify, peek,
\* contains, toArray, an iteration and toSortedArray change nothing; clear
\* empties the queue.  Sifting neither duplicates nor loses a value.
C37_ContentConserved ==
    /\ pqObs.op = "push" =>
          /\ Shifted(pqObs.before, pq, pqObs.arg, 1)
          /\ pqObs.ret = Len(pqObs.before) + 1
    /\ (pqObs.op = "pop" /\ pqObs.before # <<>>) =>
          Shifted(pqObs.before, pq, pqObs.ret, -1)
    /\ (pqObs.op = "pop" /\ pqObs.before = <<>>) => pq = <<>>
    /\ pqObs.op = "remove" =>
          IF pqObs.ret THEN Shifted(pqObs.before, pq, pqObs.arg, -1)
          ELSE pq = pqObs.before
    /\ pqObs.op \in {"heapify", "peek", "contains", "toArray", "iterate",
                      "toSortedArray"} =>
          /\ Len(pq) = Len(pqObs.before)
          /\ SameContents(pq, pqObs.before)
    /\ pqObs.op \in {"toArray", "iterate"} => pqObs.ret = pqObs.before
    /\ pqObs.op = "clear" => pq = <<>>

\* C37 witness: a pop of a queue that held the returned value twice, the
\* sift-down having moved the element put at the root.
C37_Witness ==
    /\ pqObs.op = "pop"
    /\ Len(pqObs.before) >= 4
    /\ Count(pqObs.before, pqObs.ret) >= 2
    /\ pq # Set(ArrayPop(pqObs.before), 0, pqObs.before[Len(pqObs.before)])
    /\ Count(pq, pqObs.ret) = Count(pqObs.before, pqObs.ret) - 1

----------------------------------------------------------------------------
(* A claim that relates remove and pop, checked under SpecPQ *)

\* C38: to remove the top by its value is to extract it: from every
\* non-empty queue remove(peek()) returns true and leaves the array, place
\* by place, that pop() leaves.  It is stated of every remove that was
\* given the root, of every pop, and of every queue the calls lead to.
C38_RemoveTopIsPop ==
    /\ (pqObs.op = "remove" /\ pqObs.before # <<>>
           /\ pqObs.arg = PQPeek(pqObs.before).ret) =>
          /\ pqObs.ret = TRUE
          /\ pq = PQPop(compare, pqObs.before).heap
    /\ (pqObs.op = "pop" /\ pqObs.before # <<>>) =>
          pq = PQRemove(compare, pqObs.before, PQPeek(pqObs.before).ret).heap
    /\ (stage = "pq" /\ pq # <<>>) =>
          LET removed == PQRemove(compare, pq, PQPeek(pq).ret)
          IN  /\ removed.ret = TRUE
              /\ removed.heap = PQPop(compare, pq).heap

\* C38 witness: remove was given the root of a queue of four or more, one
\* that held the value a second time, and the element put in its place was
\* sifted down.
C38_Witness ==
    /\ pqObs.op = "remove"
    /\ Len(pqObs.before) >= 4
    /\ pqObs.arg = pqObs.before[1]
    /\ Count(pqObs.before, pqObs.arg) >= 2
    /\ pqObs.ret = TRUE
    /\ pq # Set(ArrayPop(pqObs.before), 0, pqObs.before[Len(pqObs.before)])
    /\ pq = PQPop(compare, pqObs.before).heap

====
